---- MODULE Spec2Model ----
(***************************************************************************)
(* A model of the doi-checker worker: the check cycle (checkAllDOIs) with  *)
(* its status store, the prober (checkSingleDOI / checkMultipleDOIs), the  *)
(* transition detector (processResults) and the alert dispatcher           *)
(* (postBrokenDOIsToActivityPub / postToActivityPub).                      *)
(*                                                                         *)
(* Encoding of JavaScript values:                                          *)
(*  - a timestamp is a positive integer; NoTime (0) stands for a field     *)
(*    that is null or undefined (both are falsy, and JSON.stringify drops  *)
(*    an undefined field so that the next JSON.parse reads it back as      *)
(*    undefined);                                                          *)
(*  - httpStatus null is NoHttpStatus (0); an absent error is NoError;     *)
(*  - a value held by the STATUS namespace is a record with a kind:        *)
(*    "absent" (get returns null), "corrupt" (JSON.parse throws) or        *)
(*    "json" (a parsed status object).                                     *)
(***************************************************************************)
EXTENDS Integers, Sequences, FiniteSets, TLC

\* ------------------------------------------------------------------ bounds
MaxCycles == 3

\* --------------------------------------------------------------- constants
\* DEFAULT_CHECK_OPTIONS.maxRetries
MaxRetries == 3
\* DEFAULT_CHECK_OPTIONS.retryDelay, in ms
RetryDelay == 1000
\* ACTIVITYPUB_CONFIG.MAX_POST_LENGTH
MAX_POST_LENGTH == 500
\* ACTIVITYPUB_CONFIG.MAX_RETRIES
MAX_RETRIES == 3

\* The identifiers of the model: a short one and a long one (the validator
\* /^10\.\d{4,}\/\S+$/ puts no limit on the length of the suffix).
DOIs == {"doiA", "doiLong"}

\* the number of characters of each identifier
DoiLen(doi) == IF doi = "doiA" THEN 14 ELSE 480

NoTime == 0
NoHttpStatus == 0
NoError == "null"
\* a result without an error field
Undefined == "undefined"
\* lastError before any attempt has thrown
NoLastError == "none"

\* ------------------------------------------------------------ status values
Absent == [kind |-> "absent"]
Corrupt == [kind |-> "corrupt"]

\* the object {} that the merge starts from when there is nothing to parse
\* (its working, httpStatus, error and lastCheck are placeholders: the merge
\* overwrites the four of them before anything reads them)
EmptyStatus ==
  [kind |-> "json", working |-> FALSE,
   httpStatus |-> NoHttpStatus, error |-> NoError, lastCheck |-> NoTime,
   firstCheckedTimestamp |-> NoTime, firstFailureTimestamp |-> NoTime,
   firstSuccessTimestamp |-> NoTime]

\* a record as the tests seed it: {working, httpStatus} and no milestones
LegacyStatus(w) ==
  [EmptyStatus EXCEPT !.working = w, !.httpStatus = IF w THEN 200 ELSE 404]

ParsePreviousCorruptAsWorking(v) ==
  IF v.kind = "json" THEN v
  ELSE IF v.kind = "corrupt" THEN LegacyStatus(TRUE) ELSE Absent

\* JSON.parse of a value read from the store, as checkAllDOIs uses it when
\* it collects previousStatuses: null for an absent or unparseable value
ParsePrevious(v) == IF v.kind = "json" THEN v ELSE Absent

ParseExistingFresh(v) == EmptyStatus

\* JSON.parse of a value read from the store, as the merge loop uses it:
\* {} for an absent or unparseable value
ParseExisting(v) == IF v.kind = "json" THEN v ELSE EmptyStatus

\* previousStatus?.working as a truth value
PrevWorking(prev) == prev.kind = "json" /\ prev.working

\* ------------------------------------------------------------------ prober
\* What one attempt of checkSingleDOI meets on the network: NetworkError (one
\* of its two HEAD requests throws) or the status of the final response.
NetworkError == 0
AttemptOutcomes == {NetworkError, 200, 404}
NetBehaviours == [1..(MaxRetries + 1) -> AttemptOutcomes]

\* the retry loop of checkSingleDOI, entered with the retry counter at
\* `retries`: the first attempt that gets a response decides the result, an
\* attempt that throws increments the counter
RECURSIVE CheckLoop(_, _, _, _)
CheckLoop(doi, net, retries, t) ==
  IF retries > MaxRetries
    THEN [doi |-> doi, working |-> FALSE, httpStatus |-> NoHttpStatus,
          error |-> "network error", timestamp |-> t]
    ELSE IF net[retries + 1] = NetworkError
      THEN CheckLoop(doi, net, retries + 1, t)
      ELSE [doi |-> doi,
            working |-> (net[retries + 1] >= 200 /\ net[retries + 1] < 400),
            httpStatus |-> net[retries + 1], error |-> Undefined,
            timestamp |-> t]

\* checkSingleDOI(doi) against the network behaviour net, finalized at time t
CheckSingleDOI(doi, net, t) == CheckLoop(doi, net, 0, t)

\* ------------------------------------------------------ transition detector
ProcessResultsEveryBroken(results, previousStatuses) ==
  LET broken == SelectSeq(results, LAMBDA r : ~r.working)
  IN  [k \in 1..Len(broken) |-> broken[k].doi]

\* processResults(results, previousStatuses).newlyBroken: the identifiers, in
\* result order, with  previousStatus?.working && !result.working
ProcessResults(results, previousStatuses) ==
  LET broken == SelectSeq(results,
                   LAMBDA r : PrevWorking(previousStatuses[r.doi]) /\ ~r.working)
  IN  [k \in 1..Len(broken) |-> broken[k].doi]

\* ------------------------------------------------------------ status merger
OrNullIdentity(e) == e

\* result.error || null
OrNull(e) == IF e = Undefined \/ e = "" THEN NoError ELSE e

MergeLatestFailure(existingStatus, result) ==
  [kind |-> "json",
   lastCheck |-> result.timestamp,
   working |-> result.working,
   httpStatus |-> result.httpStatus,
   error |-> OrNull(result.error),
   firstCheckedTimestamp |->
     IF existingStatus.firstCheckedTimestamp # NoTime
       THEN existingStatus.firstCheckedTimestamp ELSE result.timestamp,
   firstFailureTimestamp |->
     IF ~result.working
       THEN result.timestamp ELSE existingStatus.firstFailureTimestamp,
   firstSuccessTimestamp |->
     IF result.working /\ existingStatus.firstSuccessTimestamp = NoTime
       THEN result.timestamp ELSE existingStatus.firstSuccessTimestamp]

MergeOverwriteFirstChecked(existingStatus, result) ==
  [kind |-> "json",
   lastCheck |-> result.timestamp,
   working |-> result.working,
   httpStatus |-> result.httpStatus,
   error |-> OrNull(result.error),
   firstCheckedTimestamp |-> result.timestamp,
   firstFailureTimestamp |->
     IF ~result.working /\ existingStatus.firstFailureTimestamp = NoTime
       THEN result.timestamp ELSE existingStatus.firstFailureTimestamp,
   firstSuccessTimestamp |->
     IF result.working /\ existingStatus.firstSuccessTimestamp = NoTime
       THEN result.timestamp ELSE existingStatus.firstSuccessTimestamp]

MergeKeepWorking(existingStatus, result) ==
  [kind |-> "json",
   lastCheck |-> result.timestamp,
   working |-> existingStatus.working \/ result.working,
   httpStatus |-> result.httpStatus,
   error |-> OrNull(result.error),
   firstCheckedTimestamp |->
     IF existingStatus.firstCheckedTimestamp # NoTime
       THEN existingStatus.firstCheckedTimestamp ELSE result.timestamp,
   firstFailureTimestamp |->
     IF ~result.working /\ existingStatus.firstFailureTimestamp = NoTime
       THEN result.timestamp ELSE existingStatus.firstFailureTimestamp,
   firstSuccessTimestamp |->
     IF result.working /\ existingStatus.firstSuccessTimestamp = NoTime
       THEN result.timestamp ELSE existingStatus.firstSuccessTimestamp]

\* the object that the update loop of checkAllDOIs stores for one result
Merge(existingStatus, result) ==
  [kind |-> "json",
   lastCheck |-> result.timestamp,
   working |-> result.working,
   httpStatus |-> result.httpStatus,
   error |-> OrNull(result.error),
   firstCheckedTimestamp |->
     IF existingStatus.firstCheckedTimestamp # NoTime
       THEN existingStatus.firstCheckedTimestamp ELSE result.timestamp,
   firstFailureTimestamp |->
     IF ~result.working /\ existingStatus.firstFailureTimestamp = NoTime
       THEN result.timestamp ELSE existingStatus.firstFailureTimestamp,
   firstSuccessTimestamp |->
     IF result.working /\ existingStatus.firstSuccessTimestamp = NoTime
       THEN result.timestamp ELSE existingStatus.firstSuccessTimestamp]

\* --------------------------------------------------------- alert dispatcher
\* the characters of the message that do not depend on its input:
\* "= DOI Link Check Alert: " and " broken DOI(s) found:\n"
HeaderLen == 46
\* the characters that precede the identifier on its line
LinePrefixLen == 18

\* the number of decimal digits of n
Digits(n) == IF n < 10 THEN 1 ELSE IF n < 100 THEN 2 ELSE 3

RECURSIVE SumDoiLen(_)
SumDoiLen(dois) ==
  IF dois = << >> THEN 0
  ELSE LinePrefixLen + DoiLen(Head(dois)) + SumDoiLen(Tail(dois))

\* formatActivityPubMessage(brokenDOIs): the header with the count and one
\* line per identifier; the text is kept as its parts and its length
FormatActivityPubMessage(brokenDOIs) ==
  [count |-> Len(brokenDOIs),
   dois |-> brokenDOIs,
   length |-> HeaderLen + Digits(Len(brokenDOIs)) + SumDoiLen(brokenDOIs)
              + (IF Len(brokenDOIs) > 0 THEN Len(brokenDOIs) - 1 ELSE 0)]

\* what the alert endpoint does with one POST
PostOutcomes == {"ok", "rejected", "network-error"}

\* postToActivityPub(message, config) against an endpoint that answers every
\* POST with net: the requests made, and whether it returned or threw
PostToActivityPub(message, config, net) ==
  IF config.serverUrl = "" \/ config.authToken = ""
    THEN [calls |-> << >>, threw |-> TRUE, value |-> "none"]
    ELSE IF net = "ok"
      THEN [calls |-> <<message>>, threw |-> FALSE, value |-> "json"]
      ELSE [calls |-> <<message>>, threw |-> TRUE, value |-> "none"]

PostBrokenIgnoringEnabled(brokenDOIs, config, net) ==
  IF Len(brokenDOIs) = 0
    THEN [calls |-> << >>, threw |-> FALSE, value |-> "null"]
    ELSE PostToActivityPub(FormatActivityPubMessage(brokenDOIs), config, net)

PostBrokenOnePerDOI(brokenDOIs, config, net) ==
  IF Len(brokenDOIs) = 0 \/ ~config.enabled
    THEN [calls |-> << >>, threw |-> FALSE, value |-> "null"]
    ELSE [calls |-> [k \in 1..Len(brokenDOIs) |->
                       FormatActivityPubMessage(<<brokenDOIs[k]>>)],
          threw |-> FALSE, value |-> "json"]

PostBrokenAlways(brokenDOIs, config, net) ==
  IF ~config.enabled
    THEN [calls |-> << >>, threw |-> FALSE, value |-> "null"]
    ELSE PostToActivityPub(FormatActivityPubMessage(brokenDOIs), config, net)

\* postBrokenDOIsToActivityPub(brokenDOIs, config)
PostBrokenDOIsToActivityPub(brokenDOIs, config, net) ==
  IF Len(brokenDOIs) = 0
    THEN [calls |-> << >>, threw |-> FALSE, value |-> "null"]
    ELSE IF ~config.enabled
      THEN [calls |-> << >>, threw |-> FALSE, value |-> "null"]
      ELSE PostToActivityPub(FormatActivityPubMessage(brokenDOIs), config, net)

\* ------------------------------------------------------------------- state
VARIABLES
  DOIS,              \* the DOIS namespace: the value under DOI_LIST_KEY
  STATUS,            \* the STATUS namespace: identifier -> stored value
  now,               \* the wall clock
  cycles,            \* the number of cycles started so far
  pc,                \* the position of the running cycle in checkAllDOIs
  trigger,           \* what invoked the cycle: "scheduled" or "check-now"
  doiList,           \* checkAllDOIs: the parsed monitoring list
  idx,               \* the index of the loop the cycle is in
  previousStatuses,  \* checkAllDOIs: identifier -> status read before probing
  results,           \* checkAllDOIs: the results of checkMultipleDOIs
  newlyBroken,       \* checkAllDOIs: processedResults.newlyBroken
  existingStatus,    \* checkAllDOIs: the status the merge starts from
  activityPubConfig, \* checkAllDOIs: the configuration built from env
  posts,             \* the POST requests this cycle made to the alert endpoint
  alert,             \* how the dispatch of this cycle ended
  outcome,           \* what the handler handed back to the platform
  summary,           \* the body of the response of a completed cycle
  prevBroken,        \* history: identifiers the last persisted cycle found broken
  missedAlert,       \* history: identifiers whose alert failed, broken since
  puts,              \* history: the STATUS.put calls this cycle has made
  putThrew           \* history: a STATUS.put of this cycle threw

\* the batch runner and the prober on their own: checkMultipleDOIs(doiList)
VARIABLES
  bInput,            \* the argument doiList of checkMultipleDOIs
  bIdx,              \* checkMultipleDOIs: the position of its for loop
  bResults,          \* checkMultipleDOIs: results
  ppc,               \* the position inside checkMultipleDOIs / checkSingleDOI
  retries,           \* checkSingleDOI: retries
  lastError,         \* checkSingleDOI: lastError (its message)
  firstStatus,       \* checkSingleDOI: response.status of the attempt
  finalStatus,       \* history: the status of the last final response
  attempts,          \* history: the attempts of the running/last probe
  sleeps,            \* history: the pauses of the running/last probe
  slept,             \* history: the time that probe has paused, in ms
  probed             \* history: the identifiers checkSingleDOI was called with

\* two check cycles and a removeDOI request that overlap on one identifier
VARIABLES
  oDOIS,             \* the DOIS namespace: the value under DOI_LIST_KEY
  oSTATUS,           \* the STATUS namespace: the value under the identifier
  oNow,              \* the wall clock
  run,               \* cycle -> the position and the locals of that checkAllDOIs
  rm,                \* the position and the locals of the removeDOI request
  oRemoved           \* history: removeDOI has returned its 200 response

\* the requests that maintain and report the monitoring list, one at a time
VARIABLES
  lDOIS,             \* the DOIS namespace: the value under DOI_LIST_KEY
  lSTATUS,           \* the STATUS namespace: identifier -> stored value
  lReq,              \* the request handled last
  lResp,             \* the response to it
  lBefore,           \* history: the two namespaces before that request
  lOps,              \* history: the DOIS.put and STATUS.delete calls it made
  lCount             \* the number of requests handled so far

\* the status merger on its own: the merges of one identifier's record
VARIABLES
  mRec,              \* the stored status of the identifier
  mPrev,             \* history: the stored status before the last merge
  mResult,           \* the result merged last
  mPrevResult,       \* history: the result merged before that one
  mCount,            \* the number of merges so far
  mFirst             \* history: the timestamps of the first results of a kind

\* the rate limiter: one SimpleRateLimiter and the clock it reads
VARIABLES
  rlRequests,        \* this.requests: client -> the timestamps it holds
  rlNow,             \* Date.now()
  rlLast,            \* the call made last and what it returned
  rlAccepted,        \* history: client -> the times checkLimit returned true
  rlRejects,         \* history: client -> the calls that returned false
  rlCalls            \* the number of calls so far

\* the logger: the module-level configuration and the console
VARIABLES
  loggerConfig,      \* loggerConfig
  logScopes,         \* history: scope -> minLevel when its logger was created
  logLast,           \* the log call made last and whether it wrote
  logCalls,          \* the number of log calls so far
  consoleLines       \* the number of lines written to the console

\* two addDOI requests that overlap
VARIABLES
  aDOIS,             \* the DOIS namespace: the value under DOI_LIST_KEY
  adders             \* request -> the position and the locals of that addDOI

cycleVars == <<DOIS, STATUS, now, cycles, pc, trigger, doiList, idx,
               previousStatuses, results, newlyBroken, existingStatus,
               activityPubConfig, posts, alert, outcome, summary,
               prevBroken, missedAlert, puts, putThrew>>
probeVars == <<bInput, bIdx, bResults, ppc, retries, lastError, firstStatus,
               finalStatus, attempts, sleeps, slept, probed>>
mergeVars == <<mRec, mPrev, mResult, mPrevResult, mCount, mFirst>>
overlapVars == <<oDOIS, oSTATUS, oNow, run, rm, oRemoved>>
listVars == <<lDOIS, lSTATUS, lReq, lResp, lBefore, lOps, lCount>>
limiterVars == <<rlRequests, rlNow, rlLast, rlAccepted, rlRejects, rlCalls>>
loggerVars == <<loggerConfig, logScopes, logLast, logCalls, consoleLines>>
addVars == <<aDOIS, adders>>
utilVars == <<limiterVars, loggerVars, addVars>>

vars == <<cycleVars, probeVars, mergeVars, overlapVars, listVars, utilVars>>

\* the variables that the check cycle does not touch
aux == <<probeVars, mergeVars, overlapVars, listVars, utilVars>>

store == <<DOIS, STATUS>>
locals == <<doiList, previousStatuses, results, newlyBroken, existingStatus>>
dispatch == <<activityPubConfig, posts, alert>>
history == <<prevBroken, missedAlert>>
writes == <<puts, putThrew>>

\* the monitoring lists: duplicate-free sequences of identifiers
DoiLists ==
  {<< >>} \cup {<<d>> : d \in DOIs}
          \cup {<<d, e>> : <<d, e>> \in {x \in DOIs \X DOIs : x[1] # x[2]}}

\* the values of the environment variables that checkAllDOIs reads
EnabledValues == {"true", "false", "undefined"}
UrlValues == {"https://mock.activitypub.server/api/snac2", ""}
TokenValues == {"mock-activitypub-token", ""}

NoConfig == [enabled |-> TRUE, serverUrl |-> "", authToken |-> ""]
NoSummary == [checked |-> 0, newlyBroken |-> 0]

\* no result yet
NoResult ==
  [doi |-> "none", working |-> FALSE, httpStatus |-> NoHttpStatus,
   error |-> Undefined, timestamp |-> NoTime]
NoFirst == [checked |-> NoTime, failure |-> NoTime, success |-> NoTime]

\* checkMultipleDOIs is not running
ProbeParked ==
  /\ bInput = [kind |-> "null", list |-> << >>]
  /\ bIdx = 1
  /\ bResults = << >>
  /\ ppc = "parked"
  /\ retries = 0
  /\ lastError = NoLastError
  /\ firstStatus = NoHttpStatus
  /\ finalStatus = NoHttpStatus
  /\ attempts = 0
  /\ sleeps = 0
  /\ slept = 0
  /\ probed = << >>

\* no record is being merged
MergeParked ==
  /\ mRec = Absent
  /\ mPrev = Absent
  /\ mResult = NoResult
  /\ mPrevResult = NoResult
  /\ mCount = 0
  /\ mFirst = NoFirst

\* the locals of a checkAllDOIs that has not read anything yet
NoRun(p) ==
  [pc |-> p, doiList |-> << >>, prevRaw |-> Absent, prev |-> Absent,
   result |-> NoResult, newlyBroken |-> << >>, existingRaw |-> Absent,
   existing |-> EmptyStatus, puts |-> 0]

\* the cycles of the overlap
Cycles == {1, 2}

\* no overlapping cycles are running
OverlapParked ==
  /\ oDOIS = Absent
  /\ oSTATUS = Absent
  /\ oNow = 0
  /\ run = [c \in Cycles |-> NoRun("parked")]
  /\ rm = [pc |-> "parked", doiList |-> << >>]
  /\ oRemoved = FALSE

NoRequest ==
  [op |-> "none", kind |-> "none", doi |-> "", hasDois |-> FALSE, dois |-> << >>]
NoResponse ==
  [status |-> 0, count |-> 0, working |-> 0, broken |-> 0, unchecked |-> 0,
   counted |-> FALSE]
NoOps == [puts |-> 0, deletes |-> 0]

\* no request is being handled
ListParked ==
  /\ lDOIS = Absent
  /\ lSTATUS = [d \in DOIs |-> Absent]
  /\ lReq = NoRequest
  /\ lResp = NoResponse
  /\ lBefore = [dois |-> Absent, status |-> [d \in DOIs |-> Absent]]
  /\ lOps = NoOps
  /\ lCount = 0

\* the clients of the rate limiter
Clients == {"c1", "c2"}

NoCall == [op |-> "none", client |-> "none", at |-> 0, ok |-> FALSE, remaining |-> 0]

\* no rate limiter is in use
LimiterParked ==
  /\ rlRequests = [c \in Clients |-> << >>]
  /\ rlNow = 0
  /\ rlLast = NoCall
  /\ rlAccepted = [c \in Clients |-> << >>]
  /\ rlRejects = [c \in Clients |-> 0]
  /\ rlCalls = 0

\* LOG_LEVELS
LOG_LEVELS == [DEBUG |-> 0, INFO |-> 1, WARN |-> 2, ERROR |-> 3]

\* defaultConfig of the logger
DefaultConfig ==
  [minLevel |-> LOG_LEVELS.INFO, colorize |-> TRUE, timestamps |-> TRUE,
   includeContext |-> TRUE]

\* the scopes that createScopedLogger is called with
Scopes == {"checker"}

\* no logger has been created for a scope
NotCreated == -1

NoLine == [timestamp |-> FALSE, level |-> -1, context |-> FALSE]
NoLog == [level |-> -1, scope |-> "none", wrote |-> FALSE, line |-> NoLine]

\* nothing is being logged
LoggerParked ==
  /\ loggerConfig = DefaultConfig
  /\ logScopes = [s \in Scopes |-> NotCreated]
  /\ logLast = NoLog
  /\ logCalls = 0
  /\ consoleLines = 0

\* the two overlapping addDOI requests
Adders == {1, 2}

NoAdder == [pc |-> "parked", body |-> NoRequest, read |-> Absent, status |-> 0,
            added |-> FALSE]

\* no addDOI requests overlap
AddParked ==
  /\ aDOIS = Absent
  /\ adders = [r \in Adders |-> NoAdder]

UtilParked == LimiterParked /\ LoggerParked /\ AddParked

\* no cycle is running
CycleParked ==
  /\ DOIS = Absent
  /\ STATUS = [d \in DOIs |-> Absent]
  /\ now = 0
  /\ cycles = 0
  /\ pc = "parked"
  /\ trigger = "none"
  /\ doiList = << >>
  /\ idx = 1
  /\ previousStatuses = [d \in DOIs |-> Absent]
  /\ results = << >>
  /\ newlyBroken = << >>
  /\ existingStatus = EmptyStatus
  /\ activityPubConfig = NoConfig
  /\ posts = << >>
  /\ alert = "none"
  /\ outcome = "none"
  /\ summary = NoSummary
  /\ prevBroken = {}
  /\ missedAlert = {}
  /\ puts = 0
  /\ putThrew = FALSE

Init ==
  /\ DOIS \in {Absent} \cup {[kind |-> "json", list |-> l] : l \in DoiLists}
  /\ STATUS \in [DOIs -> {Absent, Corrupt, LegacyStatus(TRUE), LegacyStatus(FALSE)}]
  /\ now = 0
  /\ cycles = 0
  /\ pc = "idle"
  /\ trigger = "none"
  /\ doiList = << >>
  /\ idx = 1
  /\ previousStatuses = [d \in DOIs |-> Absent]
  /\ results = << >>
  /\ newlyBroken = << >>
  /\ existingStatus = EmptyStatus
  /\ activityPubConfig = NoConfig
  /\ posts = << >>
  /\ alert = "none"
  /\ outcome = "none"
  /\ summary = NoSummary
  /\ prevBroken = {}
  /\ missedAlert = {}
  /\ puts = 0
  /\ putThrew = FALSE
  /\ ProbeParked
  /\ MergeParked
  /\ OverlapParked
  /\ ListParked
  /\ UtilParked

\* the identifiers of a sequence of identifiers
Range(seq) == {seq[k] : k \in 1..Len(seq)}

\* the identifiers that a list of results reports as not working
BrokenIn(res) == {res[k].doi : k \in {j \in 1..Len(res) : ~res[j].working}}

StartCycleEmptyAsAbsent(t) ==
  /\ pc \in {"idle", "done"}
  /\ cycles < MaxCycles
  /\ cycles' = cycles + 1
  /\ trigger' = t
  /\ idx' = 1
  /\ previousStatuses' = [d \in DOIs |-> Absent]
  /\ results' = << >>
  /\ newlyBroken' = << >>
  /\ existingStatus' = EmptyStatus
  /\ activityPubConfig' = NoConfig
  /\ posts' = << >>
  /\ alert' = "none"
  /\ summary' = NoSummary
  /\ IF DOIS.kind = "absent" \/ DOIS.list = << >>
       THEN /\ doiList' = << >>
            /\ pc' = "done"
            /\ outcome' = IF t = "scheduled" THEN "resolved" ELSE "no-dois"
            /\ prevBroken' = {}
       ELSE /\ doiList' = DOIS.list
            /\ pc' = "readPrevious"
            /\ outcome' = "none"
            /\ UNCHANGED prevBroken
  /\ puts' = 0
  /\ putThrew' = FALSE
  /\ UNCHANGED <<store, now, missedAlert, aux>>

\* fetch() / scheduled() invoke checkAllDOIs; it reads the monitoring list
StartCycle(t) ==
  /\ pc \in {"idle", "done"}
  /\ cycles < MaxCycles
  /\ cycles' = cycles + 1
  /\ trigger' = t
  /\ idx' = 1
  /\ previousStatuses' = [d \in DOIs |-> Absent]
  /\ results' = << >>
  /\ newlyBroken' = << >>
  /\ existingStatus' = EmptyStatus
  /\ activityPubConfig' = NoConfig
  /\ posts' = << >>
  /\ alert' = "none"
  /\ summary' = NoSummary
  /\ IF DOIS.kind = "absent"
       THEN /\ doiList' = << >>
            /\ pc' = "done"
            /\ outcome' = IF t = "scheduled" THEN "resolved" ELSE "no-dois"
            /\ prevBroken' = {}
       ELSE /\ doiList' = DOIS.list
            /\ pc' = "readPrevious"
            /\ outcome' = "none"
            /\ UNCHANGED prevBroken
  /\ puts' = 0
  /\ putThrew' = FALSE
  /\ UNCHANGED <<store, now, missedAlert, aux>>

\* the loop that collects previousStatuses, one STATUS.get per identifier
ReadPrevious ==
  /\ pc = "readPrevious"
  /\ IF idx <= Len(doiList)
       THEN /\ previousStatuses' =
                 [previousStatuses EXCEPT ![doiList[idx]] =
                                             ParsePrevious(STATUS[doiList[idx]])]
            /\ idx' = idx + 1
            /\ pc' = pc
       ELSE /\ idx' = 1
            /\ pc' = "check"
            /\ UNCHANGED previousStatuses
  /\ UNCHANGED <<store, now, cycles, trigger, doiList, results, newlyBroken,
                 existingStatus, dispatch, outcome, summary, history,
                 writes, aux>>

\* checkMultipleDOIs: one checkSingleDOI per identifier, in list order
CheckMultipleDOIs ==
  /\ pc = "check"
  /\ IF idx <= Len(doiList)
       THEN /\ \E net \in NetBehaviours :
                 results' = Append(results,
                                   CheckSingleDOI(doiList[idx], net, now + 1))
            /\ now' = now + 1
            /\ idx' = idx + 1
            /\ pc' = pc
       ELSE /\ idx' = 1
            /\ pc' = "process"
            /\ UNCHANGED <<results, now>>
  /\ UNCHANGED <<store, cycles, trigger, doiList, previousStatuses,
                 newlyBroken, existingStatus, dispatch, outcome, summary,
                 history,
                 writes, aux>>

\* processResults(results, previousStatuses)
Process ==
  /\ pc = "process"
  /\ newlyBroken' = ProcessResults(results, previousStatuses)
  /\ idx' = 1
  /\ pc' = "update"
  /\ UNCHANGED <<store, now, cycles, trigger, doiList, previousStatuses,
                 results, existingStatus, dispatch, outcome, summary, history,
                 writes, aux>>

\* the update loop: STATUS.get of the existing status of the next result
UpdateGet ==
  /\ pc = "update"
  /\ IF idx <= Len(results)
       THEN /\ existingStatus' = ParseExisting(STATUS[results[idx].doi])
            /\ pc' = "put"
       ELSE /\ pc' = "post"
            /\ UNCHANGED existingStatus
  /\ UNCHANGED <<store, now, cycles, trigger, doiList, idx, previousStatuses,
                 results, newlyBroken, dispatch, outcome, summary, history,
                 writes, aux>>

UpdatePutRereads ==
  /\ pc = "put"
  /\ \E ok \in BOOLEAN :
       IF ok
         THEN /\ STATUS' = [STATUS EXCEPT ![results[idx].doi] =
                                            Merge(existingStatus, results[idx])]
              /\ previousStatuses' =
                   [previousStatuses EXCEPT ![results[idx].doi] =
                                               Merge(existingStatus, results[idx])]
              /\ idx' = idx + 1
              /\ pc' = "update"
              /\ missedAlert' = IF results[idx].working
                                  THEN missedAlert \ {results[idx].doi}
                                  ELSE missedAlert
              /\ UNCHANGED <<outcome, prevBroken, putThrew>>
         ELSE /\ pc' = "done"
              /\ putThrew' = TRUE
              /\ outcome' = IF trigger = "scheduled"
                              THEN "rethrown" ELSE "error-response"
              /\ prevBroken' = {}
              /\ UNCHANGED <<STATUS, idx, missedAlert, previousStatuses>>
  /\ puts' = puts + 1
  /\ UNCHANGED <<DOIS, now, cycles, trigger, doiList,
                 results, newlyBroken, existingStatus, dispatch, summary, aux>>

UpdatePutSwallow ==
  /\ pc = "put"
  /\ \E ok \in BOOLEAN :
       IF ok
         THEN /\ STATUS' = [STATUS EXCEPT ![results[idx].doi] =
                                            Merge(existingStatus, results[idx])]
              /\ idx' = idx + 1
              /\ pc' = "update"
              /\ missedAlert' = IF results[idx].working
                                  THEN missedAlert \ {results[idx].doi}
                                  ELSE missedAlert
              /\ UNCHANGED <<outcome, prevBroken, putThrew>>
         ELSE /\ pc' = "update"
              /\ idx' = idx + 1
              /\ putThrew' = TRUE
              /\ UNCHANGED <<STATUS, outcome, prevBroken, missedAlert>>
  /\ puts' = puts + 1
  /\ UNCHANGED <<DOIS, now, cycles, trigger, doiList, previousStatuses,
                 results, newlyBroken, existingStatus, dispatch, summary, aux>>

\* the update loop: STATUS.put of the merged status; a put that throws ends
\* the cycle in the catch of checkAllDOIs, which rethrows to the handler
UpdatePut ==
  /\ pc = "put"
  /\ \E ok \in BOOLEAN :
       IF ok
         THEN /\ STATUS' = [STATUS EXCEPT ![results[idx].doi] =
                                            Merge(existingStatus, results[idx])]
              /\ idx' = idx + 1
              /\ pc' = "update"
              /\ missedAlert' = IF results[idx].working
                                  THEN missedAlert \ {results[idx].doi}
                                  ELSE missedAlert
              /\ UNCHANGED <<outcome, prevBroken, putThrew>>
         ELSE /\ pc' = "done"
              /\ putThrew' = TRUE
              /\ outcome' = IF trigger = "scheduled"
                              THEN "rethrown" ELSE "error-response"
              /\ prevBroken' = {}
              /\ UNCHANGED <<STATUS, idx, missedAlert>>
  /\ puts' = puts + 1
  /\ UNCHANGED <<DOIS, now, cycles, trigger, doiList, previousStatuses,
                 results, newlyBroken, existingStatus, dispatch, summary, aux>>

\* the configuration that checkAllDOIs builds from the environment
ActivityPubConfig(enabledVar, url, token) ==
  [enabled |-> (enabledVar # "false"), serverUrl |-> url, authToken |-> token]

PostFailureFatal ==
  /\ pc = "post"
  /\ IF Len(newlyBroken) > 0
       THEN \E e \in EnabledValues, u \in UrlValues, t \in TokenValues,
               net \in PostOutcomes :
              LET config == ActivityPubConfig(e, u, t)
                  r == PostBrokenDOIsToActivityPub(newlyBroken, config, net)
              IN  /\ activityPubConfig' = config
                  /\ posts' = r.calls
                  /\ alert' = IF r.threw THEN "failed" ELSE r.value
                  /\ missedAlert' = IF r.threw
                                      THEN missedAlert \cup Range(newlyBroken)
                                      ELSE missedAlert
                  /\ IF r.threw
                       THEN /\ pc' = "done"
                            /\ outcome' = IF trigger = "scheduled"
                                            THEN "rethrown" ELSE "error-response"
                       ELSE /\ pc' = "respond"
                            /\ UNCHANGED outcome
       ELSE /\ alert' = "skipped"
            /\ pc' = "respond"
            /\ UNCHANGED <<activityPubConfig, posts, missedAlert, outcome>>
  /\ UNCHANGED <<store, now, cycles, trigger, doiList, idx, previousStatuses,
                 results, newlyBroken, existingStatus, summary, prevBroken,
                 writes, aux>>

\* the dispatch: postBrokenDOIsToActivityPub inside its try/catch, entered
\* only with a non-empty newlyBroken
Post ==
  /\ pc = "post"
  /\ IF Len(newlyBroken) > 0
       THEN \E e \in EnabledValues, u \in UrlValues, t \in TokenValues,
               net \in PostOutcomes :
              LET config == ActivityPubConfig(e, u, t)
                  r == PostBrokenDOIsToActivityPub(newlyBroken, config, net)
              IN  /\ activityPubConfig' = config
                  /\ posts' = r.calls
                  /\ alert' = IF r.threw THEN "failed" ELSE r.value
                  /\ missedAlert' = IF r.threw
                                      THEN missedAlert \cup Range(newlyBroken)
                                      ELSE missedAlert
       ELSE /\ alert' = "skipped"
            /\ UNCHANGED <<activityPubConfig, posts, missedAlert>>
  /\ pc' = "respond"
  /\ UNCHANGED <<store, now, cycles, trigger, doiList, idx, previousStatuses,
                 results, newlyBroken, existingStatus, outcome, summary,
                 prevBroken, writes, aux>>

\* the response of a completed cycle: {checked, newlyBroken, results}
Respond ==
  /\ pc = "respond"
  /\ summary' = [checked |-> Len(doiList), newlyBroken |-> Len(newlyBroken)]
  /\ outcome' = IF trigger = "scheduled" THEN "resolved" ELSE "summary"
  /\ prevBroken' = BrokenIn(results)
  /\ pc' = "done"
  /\ UNCHANGED <<store, now, cycles, trigger, doiList, idx, previousStatuses,
                 results, newlyBroken, existingStatus, dispatch, missedAlert,
                 writes, aux>>

Next ==
  \/ \E t \in {"scheduled", "check-now"} : StartCycle(t)
  \/ ReadPrevious
  \/ CheckMultipleDOIs
  \/ Process
  \/ UpdateGet
  \/ UpdatePut
  \/ Post
  \/ Respond

Spec == Init /\ [][Next]_vars

\* =================================================================== claims

\* the cycle has computed newlyBroken and has not yet returned
Classified == pc \in {"update", "put", "post", "respond"}

\* the cycle returned its summary to the handler
Completed == pc = "done" /\ outcome \in {"summary", "resolved"} /\ alert # "none"

\* every result of the cycle is in the store
AllPersisted ==
  \A k \in 1..Len(results) :
    /\ STATUS[results[k].doi].kind = "json"
    /\ STATUS[results[k].doi].lastCheck = results[k].timestamp
    /\ STATUS[results[k].doi].working = results[k].working

\* the identifiers that the cycle read as working and probed as not working
WorkingToBroken ==
  {d \in Range(doiList) : PrevWorking(previousStatuses[d])} \cap BrokenIn(results)

\* C1: over any sequence of cycles, each of firstCheckedTimestamp,
\* firstFailureTimestamp and firstSuccessTimestamp of a stored status record,
\* once it has a value, is written back with that same value by every later
\* step (so it is set at most once).
C1_MilestonesImmutable ==
  [][\A d \in DOIs :
       STATUS[d].kind = "json" =>
         /\ STATUS'[d].kind = "json"
         /\ STATUS[d].firstCheckedTimestamp # NoTime =>
              STATUS'[d].firstCheckedTimestamp = STATUS[d].firstCheckedTimestamp
         /\ STATUS[d].firstFailureTimestamp # NoTime =>
              STATUS'[d].firstFailureTimestamp = STATUS[d].firstFailureTimestamp
         /\ STATUS[d].firstSuccessTimestamp # NoTime =>
              STATUS'[d].firstSuccessTimestamp = STATUS[d].firstSuccessTimestamp]_vars

\* a record with its three milestones set that a later cycle has rewritten
C1_Witness ==
  \E d \in DOIs :
    /\ STATUS[d].kind = "json"
    /\ STATUS[d].firstCheckedTimestamp # NoTime
    /\ STATUS[d].firstFailureTimestamp # NoTime
    /\ STATUS[d].firstSuccessTimestamp # NoTime
    /\ STATUS[d].lastCheck > STATUS[d].firstFailureTimestamp
    /\ STATUS[d].lastCheck > STATUS[d].firstSuccessTimestamp

\* C2 (as claimed): an identifier is in newlyBroken if and only if its result
\* is not working and the status read before the merge is absent/null or has
\* working not equal to false.
C2_NewlyBrokenIffNotPreviouslyBroken ==
  Classified =>
    \A k \in 1..Len(results) :
      (results[k].doi \in Range(newlyBroken)) <=>
        /\ ~results[k].working
        /\ \/ previousStatuses[results[k].doi].kind # "json"
           \/ previousStatuses[results[k].doi].working # FALSE

\* C3: when the previous cycle was fully persisted and probed an identifier
\* as not working, and this cycle probes it as not working again, this
\* cycle's newlyBroken does not contain it.
C3_SecondFailureNotNewlyBroken ==
  Classified =>
    \A d \in prevBroken \cap BrokenIn(results) : d \notin Range(newlyBroken)

\* a second cycle in a row has found an identifier not working
C3_Witness ==
  pc = "post" /\ prevBroken \cap BrokenIn(results) # {}

Configs ==
  {ActivityPubConfig(e, u, t) :
     e \in EnabledValues, u \in UrlValues, t \in TokenValues}

\* C5: a cycle whose newlyBroken is empty makes no request to the alert
\* endpoint, and postBrokenDOIsToActivityPub called with an empty list
\* returns null without a request, whatever the configuration.
C5_NoAlertWithoutNewlyBroken ==
  /\ Len(newlyBroken) = 0 => posts = << >>
  /\ \A config \in Configs, net \in PostOutcomes :
       PostBrokenDOIsToActivityPub(<< >>, config, net)
         = [calls |-> << >>, threw |-> FALSE, value |-> "null"]

\* a completed cycle that found an identifier broken, but none newly broken
C5_Witness ==
  /\ Completed
  /\ Len(newlyBroken) = 0
  /\ BrokenIn(results) # {}
  /\ alert = "skipped"

\* C6: when the enabled flag is false the dispatcher returns null and makes
\* no request, for every non-empty newlyBroken; the statuses of the cycle are
\* persisted and the cycle returns its summary.
C6_DisabledMeansDryRun ==
  (alert \notin {"none", "skipped"} /\ ~activityPubConfig.enabled) =>
    /\ Len(newlyBroken) > 0
    /\ posts = << >>
    /\ alert = "null"
    /\ AllPersisted
    /\ pc \in {"respond", "done"}
    /\ pc = "done" =>
         /\ outcome \in {"summary", "resolved"}
         /\ summary = [checked |-> Len(doiList), newlyBroken |-> Len(newlyBroken)]

\* a completed cycle with newly broken identifiers and the dispatcher disabled
C6_Witness ==
  Completed /\ ~activityPubConfig.enabled /\ Len(newlyBroken) = 2

\* C7 (as claimed): no message sent to the alert endpoint is longer than the
\* configured maximum message length.
C7_MessageWithinMaxLength ==
  \A k \in 1..Len(posts) : posts[k].length <= MAX_POST_LENGTH

\* C8 (as claimed): when every send fails, the dispatcher has made
\* MAX_RETRIES + 1 POST attempts before it reports the failure.
C8_RetriesBeforeFailure ==
  ( /\ alert = "failed"
    /\ activityPubConfig.serverUrl # ""
    /\ activityPubConfig.authToken # "" ) => Len(posts) = MAX_RETRIES + 1

\* C9: a failed dispatch (endpoint rejects, network error, or missing
\* endpoint/token) does not abort the cycle: every status of the cycle is
\* persisted, and the cycle ends with its summary, newlyBroken greater than
\* zero; the scheduled handler resolves.
C9_DispatchFailureNotFatal ==
  alert = "failed" =>
    /\ AllPersisted
    /\ pc \in {"respond", "done"}
    /\ pc = "done" =>
         /\ outcome = (IF trigger = "scheduled" THEN "resolved" ELSE "summary")
         /\ summary.checked = Len(doiList)
         /\ summary.newlyBroken > 0

\* a scheduled cycle that completed although its dispatch failed
C9_Witness ==
  /\ pc = "done"
  /\ alert = "failed"
  /\ trigger = "scheduled"
  /\ outcome = "resolved"

\* C10: an identifier whose alert failed to send is not placed in newlyBroken
\* by a later cycle for as long as no cycle has recorded it working again.
C10_MissedAlertNotRequeued ==
  pc \in {"update", "put", "post"} =>
    Range(newlyBroken) \cap missedAlert = {}

\* a later cycle finds an identifier with a missed alert still broken
C10_Witness ==
  pc = "post" /\ missedAlert \cap BrokenIn(results) # {}

\* the stored monitoring set is empty: no list, or the list []
EmptySet == IF DOIS.kind = "absent" THEN TRUE ELSE DOIS.list = << >>

\* the cycle made no probe, no status write and no POST
NoCalls == results = << >> /\ now = 0 /\ puts = 0 /\ posts = << >>

C20_PutFailureFatal ==
  putThrew =>
    /\ pc = "done"
    /\ ~Completed
    /\ outcome = (IF trigger = "scheduled" THEN "rethrown" ELSE "error-response")
    /\ alert = "none" /\ posts = << >>
    /\ puts = idx
    /\ STATUS[results[idx].doi] # Merge(existingStatus, results[idx])

\* the write of the second result of a scheduled cycle threw
C20_Witness ==
  putThrew /\ trigger = "scheduled" /\ idx = 2 /\ outcome = "rethrown"

\* ===================================================== the batch runner alone
\* checkMultipleDOIs(doiList) and the checkSingleDOI calls it makes, one
\* request at a time.
MaxBatch == 2

\* the identifiers handed to the prober: the two valid ones and one that
\* DOI_PATTERNS.BASIC rejects
ProbeIds == DOIs \cup {"not-a-doi"}

\* DOI_PATTERNS.BASIC.test(normalizeDOI(doi))
ValidDOI(doi) == doi \in DOIs

\* the message of the ValidationError that parseDOI throws
ValidationMessage ==
  "Invalid DOI format. DOI must match basic pattern: 10.xxxx/yyyy"

\* the messages of the errors that a fetch rejects with (new Error() has the
\* empty message)
Messages == {"network failure", "timeout", ""}

\* the statuses of the first and of the final response
FirstStatuses == {200, 404}
FinalStatuses == {199, 200, 399, 400, 500}

\* the arguments of checkMultipleDOIs: something that is not an array, or an
\* array of identifiers (duplicates included)
BatchInputs ==
  {[kind |-> "null", list |-> << >>]}
    \cup {[kind |-> "array", list |-> l] :
            l \in UNION {[1..n -> ProbeIds] : n \in 0..MaxBatch}}

\* the result that the catch blocks of checkSingleDOI and its exhausted
\* branch build
FailedResult(doi, message, t) ==
  [doi |-> doi, working |-> FALSE, httpStatus |-> NoHttpStatus,
   error |-> message, timestamp |-> t]

ExhaustedResultNoMessage(doi, last, t) ==
  FailedResult(doi, "Unknown error", t)

\* the result after the loop:  error: lastError?.message || 'Unknown error'
ExhaustedResult(doi, last, t) ==
  FailedResult(doi,
               IF last = NoLastError \/ last = "" THEN "Unknown error" ELSE last,
               t)

ResponseResultFromFirst(doi, first, final, t) ==
  [doi |-> doi, working |-> (first >= 200 /\ first < 400),
   httpStatus |-> first, error |-> Undefined, timestamp |-> t]

\* the result of an attempt whose two requests were answered
ResponseResult(doi, first, final, t) ==
  [doi |-> doi, working |-> (final >= 200 /\ final < 400),
   httpStatus |-> final, error |-> Undefined, timestamp |-> t]

PauseGrowing(r) == r * RetryDelay

\* if (retries > 0) await sleep(checkOptions.retryDelay)
Pause(r) == IF r > 0 THEN RetryDelay ELSE 0

MoreAttemptsOneLess(r) == r < MaxRetries

MoreAttemptsForever(r) == r >= 0

\* while (retries <= checkOptions.maxRetries)
MoreAttempts(r) == r <= MaxRetries

PushResultFront(res, r) == <<r>> \o res

\* results.push(result)
PushResult(res, r) == Append(res, r)

\* new Date() when a result is built: results are built one after the other,
\* so the number of results built stands for the clock
ResultTime == Len(bResults) + 1

probeAux == <<cycleVars, mergeVars, overlapVars, listVars, utilVars>>
probeLocals ==
  <<retries, lastError, firstStatus, finalStatus, attempts, sleeps, slept>>

InitProbe ==
  /\ CycleParked
  /\ MergeParked
  /\ OverlapParked
  /\ ListParked
  /\ UtilParked
  /\ bInput \in BatchInputs
  /\ bIdx = 1
  /\ bResults = << >>
  /\ ppc = "batch"
  /\ retries = 0
  /\ lastError = NoLastError
  /\ firstStatus = NoHttpStatus
  /\ finalStatus = NoHttpStatus
  /\ attempts = 0
  /\ sleeps = 0
  /\ slept = 0
  /\ probed = << >>

\* if (!doiList || !Array.isArray(doiList)) return []
BatchReject ==
  /\ ppc = "batch"
  /\ bInput.kind # "array"
  /\ ppc' = "done"
  /\ UNCHANGED <<bInput, bIdx, bResults, probed, probeLocals, probeAux>>

BatchNextStartsTwo ==
  /\ ppc = "batch"
  /\ bInput.kind = "array"
  /\ IF bIdx > Len(bInput.list)
       THEN /\ ppc' = "done"
            /\ UNCHANGED <<bIdx, bResults, probed, probeLocals>>
       ELSE /\ probed' =
                 IF bIdx < Len(bInput.list)
                   THEN probed \o <<bInput.list[bIdx], bInput.list[bIdx + 1]>>
                   ELSE Append(probed, bInput.list[bIdx])
            /\ retries' = 0
            /\ lastError' = NoLastError
            /\ firstStatus' = NoHttpStatus
            /\ finalStatus' = NoHttpStatus
            /\ attempts' = 0
            /\ sleeps' = 0
            /\ slept' = 0
            /\ IF ValidDOI(bInput.list[bIdx])
                 THEN /\ ppc' = "attempt"
                      /\ UNCHANGED <<bIdx, bResults>>
                 ELSE /\ bResults' =
                           PushResult(bResults,
                                      FailedResult(bInput.list[bIdx],
                                                   ValidationMessage, ResultTime))
                      /\ bIdx' = bIdx + 1
                      /\ ppc' = "batch"
  /\ UNCHANGED <<bInput, probeAux>>

BatchNextAbortOnInvalid ==
  /\ ppc = "batch"
  /\ bInput.kind = "array"
  /\ IF bIdx > Len(bInput.list)
       THEN /\ ppc' = "done"
            /\ UNCHANGED <<bIdx, bResults, probed, probeLocals>>
       ELSE /\ probed' = Append(probed, bInput.list[bIdx])
            /\ retries' = 0
            /\ lastError' = NoLastError
            /\ firstStatus' = NoHttpStatus
            /\ finalStatus' = NoHttpStatus
            /\ attempts' = 0
            /\ sleeps' = 0
            /\ slept' = 0
            /\ IF ValidDOI(bInput.list[bIdx])
                 THEN /\ ppc' = "attempt"
                      /\ UNCHANGED <<bIdx, bResults>>
                 ELSE /\ ppc' = "done"
                      /\ UNCHANGED <<bIdx, bResults>>
  /\ UNCHANGED <<bInput, probeAux>>

\* one turn of  for (const doi of doiList): the loop ends, or checkSingleDOI
\* is called and parseDOI either throws (the outer catch returns the
\* result) or hands back the URL
BatchNext ==
  /\ ppc = "batch"
  /\ bInput.kind = "array"
  /\ IF bIdx > Len(bInput.list)
       THEN /\ ppc' = "done"
            /\ UNCHANGED <<bIdx, bResults, probed, probeLocals>>
       ELSE /\ probed' = Append(probed, bInput.list[bIdx])
            /\ retries' = 0
            /\ lastError' = NoLastError
            /\ firstStatus' = NoHttpStatus
            /\ finalStatus' = NoHttpStatus
            /\ attempts' = 0
            /\ sleeps' = 0
            /\ slept' = 0
            /\ IF ValidDOI(bInput.list[bIdx])
                 THEN /\ ppc' = "attempt"
                      /\ UNCHANGED <<bIdx, bResults>>
                 ELSE /\ bResults' =
                           PushResult(bResults,
                                      FailedResult(bInput.list[bIdx],
                                                   ValidationMessage, ResultTime))
                      /\ bIdx' = bIdx + 1
                      /\ ppc' = "batch"
  /\ UNCHANGED <<bInput, probeAux>>

\* one turn of the retry loop up to the first request: the pause before a
\* retry, then the request is answered or throws
Attempt ==
  /\ ppc = "attempt"
  /\ MoreAttempts(retries)
  /\ attempts' = attempts + 1
  /\ sleeps' = IF retries > 0 THEN sleeps + 1 ELSE sleeps
  /\ slept' = slept + Pause(retries)
  /\ \/ \E m \in Messages :
          /\ lastError' = m
          /\ retries' = retries + 1
          /\ UNCHANGED <<ppc, firstStatus>>
     \/ \E s \in FirstStatuses :
          /\ firstStatus' = s
          /\ ppc' = "second"
          /\ UNCHANGED <<lastError, retries>>
  /\ UNCHANGED <<bInput, bIdx, bResults, probed, finalStatus, probeAux>>

SecondRetriesOnErrorStatus ==
  /\ ppc = "second"
  /\ \/ \E m \in Messages :
          /\ lastError' = m
          /\ retries' = retries + 1
          /\ ppc' = "attempt"
          /\ UNCHANGED <<bIdx, bResults, finalStatus>>
     \/ \E s \in FinalStatuses :
          /\ finalStatus' = s
          /\ IF s >= 400
               THEN /\ retries' = retries + 1
                    /\ ppc' = "attempt"
                    /\ UNCHANGED <<bIdx, bResults, lastError>>
               ELSE /\ bResults' =
                         PushResult(bResults,
                                    ResponseResult(bInput.list[bIdx],
                                                   firstStatus, s, ResultTime))
                    /\ bIdx' = bIdx + 1
                    /\ ppc' = "batch"
                    /\ UNCHANGED <<lastError, retries>>
  /\ UNCHANGED <<bInput, probed, firstStatus, attempts, sleeps, slept, probeAux>>

\* the second request of the attempt: it throws, or its response decides
\* the result
Second ==
  /\ ppc = "second"
  /\ \/ \E m \in Messages :
          /\ lastError' = m
          /\ retries' = retries + 1
          /\ ppc' = "attempt"
          /\ UNCHANGED <<bIdx, bResults, finalStatus>>
     \/ \E s \in FinalStatuses :
          /\ finalStatus' = s
          /\ bResults' =
               PushResult(bResults,
                          ResponseResult(bInput.list[bIdx], firstStatus, s,
                                         ResultTime))
          /\ bIdx' = bIdx + 1
          /\ ppc' = "batch"
          /\ UNCHANGED <<lastError, retries>>
  /\ UNCHANGED <<bInput, probed, firstStatus, attempts, sleeps, slept, probeAux>>

\* the loop condition fails: the result of the exhausted retries
RetriesExhausted ==
  /\ ppc = "attempt"
  /\ ~MoreAttempts(retries)
  /\ bResults' =
       PushResult(bResults,
                  ExhaustedResult(bInput.list[bIdx], lastError, ResultTime))
  /\ bIdx' = bIdx + 1
  /\ ppc' = "batch"
  /\ UNCHANGED <<bInput, probed, probeLocals, probeAux>>

NextProbe ==
  \/ BatchReject
  \/ BatchNext
  \/ Attempt
  \/ Second
  \/ RetriesExhausted

SpecProbe == InitProbe /\ [][NextProbe]_vars

\* ----------------------------------------------------- claims on the prober
\* checkSingleDOI has returned and nothing has been called since
Returned == ppc \in {"batch", "done"} /\ bResults # << >> /\ probed # << >>

\* the result that the last checkSingleDOI call returned
LastResult == bResults[Len(bResults)]

\* the last call ended with every attempt failed
AllAttemptsFailed ==
  Returned /\ ValidDOI(LastResult.doi) /\ LastResult.httpStatus = NoHttpStatus

\* C11: a probe whose every attempt fails makes exactly maxRetries + 1
\* attempts (with maxRetries pauses between them) and then returns; no probe
\* makes more attempts, and none gives up while attempts remain.
C11_ExactlyMaxRetriesPlusOneAttempts ==
  /\ attempts <= MaxRetries + 1
  /\ ppc = "attempt" => attempts = retries
  /\ AllAttemptsFailed =>
       attempts = MaxRetries + 1 /\ sleeps = MaxRetries

C11_Witness ==
  AllAttemptsFailed /\ attempts = 4 /\ LastResult.error = "timeout"

\* every call of checkSingleDOI so far has returned a result of its own
\* making (none came from the catch of checkMultipleDOIs)
EveryCallReturned ==
  /\ Len(probed) = Len(bResults) + (IF ppc \in {"attempt", "second"} THEN 1 ELSE 0)
  /\ \A k \in 1..Len(bResults) :
       /\ bResults[k].doi = probed[k]
       /\ ~ValidDOI(probed[k]) =>
            /\ ~bResults[k].working
            /\ bResults[k].httpStatus = NoHttpStatus
            /\ bResults[k].error = ValidationMessage

\* C12 (as claimed): checkSingleDOI never throws, and when all attempts fail
\* the result has working=false, httpStatus=null and error equal to the
\* message of the last failure.
C12_ErrorIsLastMessage ==
  /\ EveryCallReturned
  /\ AllAttemptsFailed =>
       /\ ~LastResult.working
       /\ LastResult.error = lastError

\* C12 (amended): checkSingleDOI never throws, and when all attempts fail
\* the result has working=false, httpStatus=null and error equal to the
\* message of the last failure, or 'Unknown error' when that message is empty.
C12_ErrorIsLastMessageOrUnknown ==
  /\ EveryCallReturned
  /\ AllAttemptsFailed =>
       /\ ~LastResult.working
       /\ LastResult.error = (IF lastError = "" THEN "Unknown error" ELSE lastError)

C12_Witness ==
  /\ AllAttemptsFailed
  /\ lastError = "network failure"
  /\ LastResult.error = "network failure"
  /\ Len(bResults) = 2
  /\ ~ValidDOI(bResults[1].doi)

\* C13: when an attempt receives its two responses, the result's working flag
\* is true exactly when the status of the final response is in 200..399, and
\* httpStatus is that final status.
C13_WorkingIffFinalStatusBelow400 ==
  (Returned /\ LastResult.httpStatus # NoHttpStatus) =>
    /\ LastResult.httpStatus = finalStatus
    /\ LastResult.working <=> (finalStatus >= 200 /\ finalStatus <= 399)

C13_Witness ==
  /\ Returned
  /\ firstStatus = 404
  /\ finalStatus = 399
  /\ LastResult.working

\* C14: checkMultipleDOIs returns exactly one result per input identifier, in
\* the order of the input, and calls the prober once per identifier in that
\* order.
C14_OneResultPerIdentifierInOrder ==
  /\ \A k \in 1..Len(probed) : k <= Len(bInput.list) /\ probed[k] = bInput.list[k]
  /\ ppc = "done" =>
       /\ probed = bInput.list
       /\ Len(bResults) = Len(bInput.list)
       /\ \A k \in 1..Len(bResults) : bResults[k].doi = bInput.list[k]

C14_Witness ==
  /\ ppc = "done"
  /\ bInput.list = <<"doiLong", "doiA">>
  /\ bResults[1].working
  /\ ~bResults[2].working

\* the identifier at position k could not be checked
BadIdentifier(k) ==
  ~ValidDOI(bInput.list[k]) \/ bResults[k].httpStatus = NoHttpStatus

MaxMerges == 3

\* the results that checkSingleDOI can hand to the merge at time t
MergeResults(t) ==
  {ResponseResult("doiA", 200, s, t) : s \in FinalStatuses}
    \cup {ExhaustedResult("doiA", m, t) : m \in Messages}
    \cup {FailedResult("doiA", ValidationMessage, t)}

\* the clock when the next result is built: not before the last result
NextTimes == {IF mResult.timestamp = NoTime THEN 1 ELSE mResult.timestamp,
              mResult.timestamp + 1}

\* the milestones as the stream of results defines them: the timestamp of
\* the first result, of the first unhealthy one and of the first healthy one
FirstOfKind(first, result) ==
  [checked |-> IF first.checked = NoTime THEN result.timestamp ELSE first.checked,
   failure |-> IF first.failure = NoTime /\ ~result.working
                 THEN result.timestamp ELSE first.failure,
   success |-> IF first.success = NoTime /\ result.working
                 THEN result.timestamp ELSE first.success]

InitMerge ==
  /\ CycleParked
  /\ ProbeParked
  /\ OverlapParked
  /\ ListParked
  /\ UtilParked
  /\ mRec \in {Absent, Corrupt, LegacyStatus(TRUE), LegacyStatus(FALSE)}
  /\ mPrev = Absent
  /\ mResult = NoResult
  /\ mPrevResult = NoResult
  /\ mCount = 0
  /\ mFirst = NoFirst

\* one turn of  for (const result of results)  for this identifier
MergeResult ==
  /\ mCount < MaxMerges
  /\ \E t \in NextTimes : \E r \in MergeResults(t) :
       /\ mRec' = Merge(ParseExisting(mRec), r)
       /\ mResult' = r
       /\ mFirst' = FirstOfKind(mFirst, r)
  /\ mPrev' = mRec
  /\ mPrevResult' = mResult
  /\ mCount' = mCount + 1
  /\ UNCHANGED <<cycleVars, probeVars, overlapVars, listVars, utilVars>>

NextMerge == MergeResult

SpecMerge == InitMerge /\ [][NextMerge]_vars

\* ------------------------------------------------------ claims on the merger
\* C16: each milestone of the stored record is the timestamp of the first
\* result of its kind: firstCheckedTimestamp that of the first result merged,
\* firstFailureTimestamp that of the first unhealthy result and
\* firstSuccessTimestamp that of the first healthy result, each unset until
\* such a result has been merged.
C16_MilestonesAreFirstOfKind ==
  mCount > 0 =>
    /\ mRec.firstCheckedTimestamp = mFirst.checked
    /\ mRec.firstFailureTimestamp = mFirst.failure
    /\ mRec.firstSuccessTimestamp = mFirst.success
    /\ mCount = 1 => mRec.firstCheckedTimestamp = mResult.timestamp

C16_Witness ==
  /\ mCount = 3
  /\ mRec.firstCheckedTimestamp = 1
  /\ mRec.firstSuccessTimestamp = 1
  /\ mRec.firstFailureTimestamp = 2
  /\ mRec.lastCheck = 3
  /\ ~mRec.working

\* C17: every merge takes working, httpStatus, error and lastCheck from the
\* current result whatever the prior record holds, and a healthy result
\* stores error = null even when the prior record carried an error.
C17_CurrentFieldsOverwritten ==
  mCount > 0 =>
    /\ mRec.working = mResult.working
    /\ mRec.httpStatus = mResult.httpStatus
    /\ mRec.lastCheck = mResult.timestamp
    /\ mRec.error = (IF mResult.error = Undefined THEN NoError ELSE mResult.error)
    /\ mResult.working => mRec.error = NoError

C17_Witness ==
  /\ mCount = 2
  /\ mPrev.error = "timeout"
  /\ mResult.working
  /\ mRec.error = NoError
  /\ mRec.httpStatus = 200

\* the last two results merged are the same but for their timestamps
SameResultAgain ==
  /\ mCount >= 2
  /\ [mResult EXCEPT !.timestamp = NoTime] = [mPrevResult EXCEPT !.timestamp = NoTime]

\* C18: merging a result into the record that the same result produced
\* yields a record that differs from it in no field other than lastCheck.
C18_MergeIdempotent ==
  SameResultAgain => mRec = [mPrev EXCEPT !.lastCheck = mResult.timestamp]

C18_Witness ==
  /\ SameResultAgain
  /\ mResult.timestamp > mPrevResult.timestamp
  /\ ~mResult.working
  /\ mRec.firstFailureTimestamp = mPrevResult.timestamp

\* ------------------------------------------------ further claims on the cycle
\* the cycle ended in the catch of checkAllDOIs
Fatal == pc = "done" /\ outcome \in {"rethrown", "error-response"}

\* C21: a stored status that cannot be parsed is treated like a
\* never-checked identifier: the prior state that transition detection sees
\* is null, the merge starts from the empty record (so the stored
\* firstCheckedTimestamp is the timestamp of the current result), and the
\* cycle does not end in a fatal error because of it.
C21_CorruptAsNeverChecked ==
  /\ [](/\ \A d \in Range(doiList) :
             (pc \in {"check", "process"} /\ STATUS[d] = Corrupt) =>
               previousStatuses[d] = Absent
        /\ (pc = "put" /\ STATUS[results[idx].doi] = Corrupt) =>
             existingStatus = EmptyStatus
        /\ Fatal => putThrew)
  /\ [][(pc = "put" /\ STATUS[results[idx].doi] = Corrupt /\ STATUS' # STATUS) =>
          /\ STATUS'[results[idx].doi] = Merge(ParseExisting(Absent), results[idx])
          /\ STATUS'[results[idx].doi].firstCheckedTimestamp = results[idx].timestamp]_vars

C21_Witness ==
  /\ pc = "update"
  /\ idx = 2
  /\ ~putThrew
  /\ results[1].doi = "doiA"
  /\ ~results[1].working
  /\ previousStatuses["doiA"] = Absent
  /\ newlyBroken = << >>
  /\ existingStatus = EmptyStatus
  /\ STATUS["doiA"].kind = "json"
  /\ STATUS["doiA"].firstCheckedTimestamp = results[1].timestamp
  /\ STATUS["doiLong"] = Corrupt
  /\ cycles = 1

\* C22: within a cycle every read that feeds transition detection happens
\* before the first status write of the cycle, so no identifier is
\* classified against a record that this cycle wrote.
C22_ReadsBeforeWrites ==
  /\ pc \in {"readPrevious", "check", "process"} => puts = 0
  /\ (Classified /\ results # << >>) =>
       \A d \in Range(doiList) :
         previousStatuses[d].kind = "json" =>
           previousStatuses[d].lastCheck < results[1].timestamp

C22_Witness ==
  /\ pc = "post"
  /\ puts = 2
  /\ cycles = 2
  /\ previousStatuses["doiA"].kind = "json"
  /\ previousStatuses["doiA"].lastCheck > NoTime
  /\ STATUS["doiA"].lastCheck > previousStatuses["doiA"].lastCheck

\* the summary that Respond returns for the cycle when its alert is delivered
DeliveredSummary ==
  [checked |-> Len(doiList), newlyBroken |-> Len(newlyBroken)]

\* C26: a cycle that checks and persists but whose alert fails to send
\* returns a summary that differs from the summary of the same cycle with
\* its alert delivered (it carries a note that notification failed).
C26_FailedAlertNoted ==
  (Completed /\ alert = "failed") => summary # DeliveredSummary

\* C25: within a cycle the identifiers are checked one at a time: while a
\* probe is running it is the only call that has not returned, and the
\* next probe starts only when every earlier one has returned its result.
C25_OneProbeAtATime ==
  /\ [](/\ ppc \in {"attempt", "second"} => Len(probed) = Len(bResults) + 1
        /\ ppc \in {"batch", "done"} => Len(probed) = Len(bResults))
  /\ [][probed' # probed =>
          /\ ppc = "batch"
          /\ Len(probed) = Len(bResults)
          /\ Len(probed') = Len(probed) + 1]_vars

C25_Witness ==
  /\ ppc = "second"
  /\ Len(probed) = 2
  /\ Len(bResults) = 1
  /\ retries = 2
  /\ bResults[1].httpStatus = 500

\* ============================================== overlapping cycles and removals
\* Two checkAllDOIs runs (a scheduled one and a /check-now request, say) and
\* one removeDOI request work on the same identifier; every await on the
\* store is a step of its own, so the steps of the three interleave freely.
X == "doiA"

\* the results that the prober can hand to a cycle at time t
OverlapResults(t) ==
  {ResponseResult(X, 200, 200, t), ResponseResult(X, 200, 404, t),
   ExhaustedResult(X, "timeout", t)}

\* previousStatuses of a cycle whose list holds X at most
PreviousOf(prev) == [d \in DOIs |-> IF d = X THEN prev ELSE Absent]

overlapAux == <<cycleVars, probeVars, mergeVars, listVars, utilVars>>

InitOverlap ==
  /\ CycleParked
  /\ ProbeParked
  /\ MergeParked
  /\ ListParked
  /\ UtilParked
  /\ oDOIS \in {[kind |-> "json", list |-> <<X>>], [kind |-> "json", list |-> << >>]}
  /\ oSTATUS \in {Absent, Corrupt, LegacyStatus(TRUE), LegacyStatus(FALSE)}
  /\ oNow = 0
  /\ run = [c \in Cycles |-> NoRun("idle")]
  /\ rm = [pc |-> "idle", doiList |-> << >>]
  /\ oRemoved = FALSE

\* checkAllDOIs of cycle c: DOIS.get of the monitoring list
OStart(c) ==
  /\ run[c].pc = "idle"
  /\ run' = [run EXCEPT ![c] =
               IF oDOIS.kind = "absent"
                 THEN [@ EXCEPT !.pc = "done"]
                 ELSE [@ EXCEPT !.pc = "readPrevious", !.doiList = oDOIS.list]]
  /\ UNCHANGED <<oDOIS, oSTATUS, oNow, rm, oRemoved, overlapAux>>

\* cycle c: the STATUS.get that fills previousStatuses
OReadPrevious(c) ==
  /\ run[c].pc = "readPrevious"
  /\ run' = [run EXCEPT ![c] =
               IF run[c].doiList = << >>
                 THEN [@ EXCEPT !.pc = "check"]
                 ELSE [@ EXCEPT !.pc = "check", !.prevRaw = oSTATUS,
                                !.prev = ParsePrevious(oSTATUS)]]
  /\ UNCHANGED <<oDOIS, oSTATUS, oNow, rm, oRemoved, overlapAux>>

\* cycle c: checkMultipleDOIs and processResults
OCheck(c) ==
  /\ run[c].pc = "check"
  /\ IF run[c].doiList = << >>
       THEN /\ run' = [run EXCEPT ![c].pc = "post"]
            /\ UNCHANGED oNow
       ELSE /\ \E r \in OverlapResults(oNow + 1) :
                 run' = [run EXCEPT ![c] =
                           [@ EXCEPT !.pc = "update", !.result = r,
                                     !.newlyBroken =
                                        ProcessResults(<<r>>, PreviousOf(run[c].prev))]]
            /\ oNow' = oNow + 1
  /\ UNCHANGED <<oDOIS, oSTATUS, rm, oRemoved, overlapAux>>

\* cycle c: the STATUS.get of the update loop
OUpdateGet(c) ==
  /\ run[c].pc = "update"
  /\ run' = [run EXCEPT ![c] =
               [@ EXCEPT !.pc = "put", !.existingRaw = oSTATUS,
                         !.existing = ParseExisting(oSTATUS)]]
  /\ UNCHANGED <<oDOIS, oSTATUS, oNow, rm, oRemoved, overlapAux>>

\* cycle c: the STATUS.put of the update loop
OUpdatePut(c) ==
  /\ run[c].pc = "put"
  /\ oSTATUS' = Merge(run[c].existing, run[c].result)
  /\ run' = [run EXCEPT ![c] = [@ EXCEPT !.pc = "post", !.puts = @ + 1]]
  /\ UNCHANGED <<oDOIS, oNow, rm, oRemoved, overlapAux>>

\* cycle c: the dispatch and the response, which touch neither namespace
OFinish(c) ==
  /\ run[c].pc = "post"
  /\ run' = [run EXCEPT ![c].pc = "done"]
  /\ UNCHANGED <<oDOIS, oSTATUS, oNow, rm, oRemoved, overlapAux>>

\* removeDOI({doi: X}): DOIS.get and the two NotFoundError checks
ORemoveGet ==
  /\ rm.pc = "idle"
  /\ rm' = IF oDOIS.kind = "absent"
             THEN [rm EXCEPT !.pc = "failed"]
             ELSE IF X \notin Range(oDOIS.list)
               THEN [rm EXCEPT !.pc = "failed"]
               ELSE [pc |-> "put", doiList |-> oDOIS.list]
  /\ UNCHANGED <<oDOIS, oSTATUS, oNow, run, oRemoved, overlapAux>>

\* removeDOI: DOIS.put of the filtered list
ORemovePut ==
  /\ rm.pc = "put"
  /\ oDOIS' = [kind |-> "json",
               list |-> SelectSeq(rm.doiList, LAMBDA d : d # X)]
  /\ rm' = [rm EXCEPT !.pc = "delete"]
  /\ UNCHANGED <<oSTATUS, oNow, run, oRemoved, overlapAux>>

\* removeDOI: STATUS.delete, then the 200 response
ORemoveDelete ==
  /\ rm.pc = "delete"
  /\ oSTATUS' = Absent
  /\ rm' = [rm EXCEPT !.pc = "done"]
  /\ oRemoved' = TRUE
  /\ UNCHANGED <<oDOIS, oNow, run, overlapAux>>

NextOverlap ==
  \/ \E c \in Cycles : OStart(c)
  \/ \E c \in Cycles : OReadPrevious(c)
  \/ \E c \in Cycles : OCheck(c)
  \/ \E c \in Cycles : OUpdateGet(c)
  \/ \E c \in Cycles : OUpdatePut(c)
  \/ \E c \in Cycles : OFinish(c)
  \/ ORemoveGet
  \/ ORemovePut
  \/ ORemoveDelete

SpecOverlap == InitOverlap /\ [][NextOverlap]_vars

\* ------------------------------------------------------ claims on the overlap
\* C23: under every interleaving of two overlapping cycles, a milestone of
\* the identifier's record that has once been stored is never replaced by a
\* different value.
C23_OverlapKeepsMilestones ==
  [][(oSTATUS.kind = "json" /\ oSTATUS'.kind = "json") =>
       /\ oSTATUS.firstCheckedTimestamp # NoTime =>
            oSTATUS'.firstCheckedTimestamp = oSTATUS.firstCheckedTimestamp
       /\ oSTATUS.firstFailureTimestamp # NoTime =>
            oSTATUS'.firstFailureTimestamp = oSTATUS.firstFailureTimestamp
       /\ oSTATUS.firstSuccessTimestamp # NoTime =>
            oSTATUS'.firstSuccessTimestamp = oSTATUS.firstSuccessTimestamp]_vars

\* C24: the record that a cycle classified the identifier against is the
\* record its merge is computed from, and exactly one write follows, also
\* when another cycle or a removeDOI request writes the store meanwhile.
C24_OneReadModifyWrite ==
  \A c \in Cycles :
    /\ run[c].pc \in {"put", "post", "done"} /\ run[c].doiList # << >> =>
         ParsePrevious(run[c].existingRaw) = run[c].prev
    /\ run[c].pc = "done" => run[c].puts = Len(run[c].doiList)

\* C27: once removeDOI(X) has returned, X is not in the monitoring list and
\* no status record of X exists, also when a cycle that started before the
\* removal finishes after it.
C27_RemovedStaysRemoved ==
  oRemoved => (X \notin Range(oDOIS.list) /\ oSTATUS = Absent)

\* ================================================= the monitoring list requests
\* addDOI, removeDOI and getStatus, handled one request at a time.
MaxRequests == 2
MaxAddLen == 2

\* what a request can name: the two identifiers, the first one also with the
\* doi: prefix, a string that is no DOI, and the empty string (which
\* JavaScript takes for a missing field)
RawIds == {"doiA", "doi:doiA", "doiLong", "not-a-doi", ""}

\* normalizeDOI(doi): trim, then strip a leading doi: / https://doi.org/
NormalizeDOI(raw) == IF raw = "doi:doiA" THEN "doiA" ELSE raw

\* validateDOI(doi): {valid, normalized}
ValidateDOI(raw) ==
  [valid |-> (raw # "" /\ NormalizeDOI(raw) # "" /\ ValidDOI(NormalizeDOI(raw))),
   normalized |-> NormalizeDOI(raw)]

\* the bodies of POST /add-doi: not JSON, {doi}, {} or {dois}
AddBodies ==
  {[op |-> "add", kind |-> "invalid-json", doi |-> "", hasDois |-> FALSE,
    dois |-> << >>]}
    \cup {[op |-> "add", kind |-> "json", doi |-> d, hasDois |-> FALSE,
           dois |-> << >>] : d \in RawIds}
    \cup {[op |-> "add", kind |-> "json", doi |-> "", hasDois |-> TRUE,
           dois |-> l] : l \in UNION {[1..n -> RawIds] : n \in 0..MaxAddLen}}

\* the bodies of POST /remove-doi: not JSON, or {doi} ({} when doi is empty)
RemoveBodies ==
  {[op |-> "remove", kind |-> "invalid-json", doi |-> "", hasDois |-> FALSE,
    dois |-> << >>]}
    \cup {[op |-> "remove", kind |-> "json", doi |-> d, hasDois |-> FALSE,
           dois |-> << >>] : d \in RawIds}

StatusRequest ==
  [op |-> "status", kind |-> "get", doi |-> "", hasDois |-> FALSE, dois |-> << >>]

\* a response without the counters of /status
Response(code) == [NoResponse EXCEPT !.status = code]

\* the stored list as the handlers parse it, [] when nothing is stored
ListOf(v) == IF v.kind = "absent" THEN << >> ELSE v.list

\* doisToAdd of addDOI
DoisToAdd(body) == IF body.doi # "" THEN <<body.doi>> ELSE body.dois

AlreadyListedRaw(list, raw) == raw \in Range(list)

\* !doiList.includes(normalizedDoi), negated
AlreadyListed(list, raw) == ValidateDOI(raw).normalized \in Range(list)

\* the loop of addDOI over doisToAdd: the list after it
RECURSIVE AddAll(_, _)
AddAll(list, raws) ==
  IF raws = << >> THEN list
  ELSE IF ~ValidateDOI(Head(raws)).valid
    THEN AddAll(list, Tail(raws))
    ELSE IF AlreadyListed(list, Head(raws))
      THEN AddAll(list, Tail(raws))
      ELSE AddAll(Append(list, ValidateDOI(Head(raws)).normalized), Tail(raws))

\* addDOI(request): the two namespaces after it, its response and its writes
AddDoiOutcome(body, dois, status) ==
  IF body.kind = "invalid-json" \/ (body.doi = "" /\ ~body.hasDois)
    THEN [dois |-> dois, status |-> status, resp |-> Response(400), ops |-> NoOps]
    ELSE IF DoisToAdd(body) = << >>
      THEN [dois |-> dois, status |-> status, resp |-> Response(400),
            ops |-> NoOps]
      ELSE IF Len(AddAll(ListOf(dois), DoisToAdd(body))) > Len(ListOf(dois))
        THEN [dois |-> [kind |-> "json",
                        list |-> AddAll(ListOf(dois), DoisToAdd(body))],
              status |-> status, resp |-> Response(200),
              ops |-> [puts |-> 1, deletes |-> 0]]
        ELSE [dois |-> dois, status |-> status, resp |-> Response(200),
              ops |-> NoOps]

RemoveDoiDeleteFirst(body, dois, status) ==
  IF body.kind = "invalid-json" \/ body.doi = ""
    THEN [dois |-> dois, status |-> status, resp |-> Response(400), ops |-> NoOps]
    ELSE IF dois.kind = "absent"
      THEN [dois |-> dois,
            status |-> [d \in DOIs |-> IF d = body.doi THEN Absent ELSE status[d]],
            resp |-> Response(404), ops |-> [puts |-> 0, deletes |-> 1]]
      ELSE IF body.doi \notin Range(dois.list)
        THEN [dois |-> dois,
              status |-> [d \in DOIs |-> IF d = body.doi THEN Absent ELSE status[d]],
              resp |-> Response(404), ops |-> [puts |-> 0, deletes |-> 1]]
        ELSE [dois |-> [kind |-> "json",
                        list |-> SelectSeq(dois.list, LAMBDA d : d # body.doi)],
              status |-> [d \in DOIs |-> IF d = body.doi THEN Absent ELSE status[d]],
              resp |-> Response(200), ops |-> [puts |-> 1, deletes |-> 1]]

\* removeDOI(request): the two namespaces after it, its response and its writes
RemoveDoiOutcome(body, dois, status) ==
  IF body.kind = "invalid-json" \/ body.doi = ""
    THEN [dois |-> dois, status |-> status, resp |-> Response(400), ops |-> NoOps]
    ELSE IF dois.kind = "absent"
      THEN [dois |-> dois, status |-> status, resp |-> Response(404),
            ops |-> NoOps]
      ELSE IF body.doi \notin Range(dois.list)
        THEN [dois |-> dois, status |-> status, resp |-> Response(404),
              ops |-> NoOps]
        ELSE [dois |-> [kind |-> "json",
                        list |-> SelectSeq(dois.list, LAMBDA d : d # body.doi)],
              status |-> [d \in DOIs |-> IF d = body.doi THEN Absent ELSE status[d]],
              resp |-> Response(200), ops |-> [puts |-> 1, deletes |-> 1]]

StatusViewCorruptDropped(v) ==
  IF v.kind = "json" THEN (IF v.working THEN "true" ELSE "false")
  ELSE IF v.kind = "corrupt" THEN "undefined" ELSE "null"

\* the working field of the entry that getStatus builds from a stored value:
\* the parsed one, or null when nothing is stored or the value does not parse
StatusView(v) ==
  IF v.kind = "json" THEN (IF v.working THEN "true" ELSE "false") ELSE "null"

\* the number of entries of a list of working fields that equal w
CountOf(views, w) == Len(SelectSeq(views, LAMBDA x : x = w))

\* getStatus: {dois: [], count: 0} when nothing is stored, else the counters
GetStatusResponse(dois, status) ==
  IF dois.kind = "absent"
    THEN Response(200)
    ELSE LET views == [k \in 1..Len(dois.list) |-> StatusView(status[dois.list[k]])]
         IN  [status |-> 200, count |-> Len(dois.list),
              working |-> CountOf(views, "true"),
              broken |-> CountOf(views, "false"),
              unchecked |-> CountOf(views, "null"),
              counted |-> TRUE]

listAux == <<cycleVars, probeVars, mergeVars, overlapVars, utilVars>>

InitList ==
  /\ CycleParked
  /\ ProbeParked
  /\ MergeParked
  /\ OverlapParked
  /\ UtilParked
  /\ lDOIS \in {Absent, [kind |-> "json", list |-> << >>]}
  /\ lSTATUS \in [DOIs -> {Absent, Corrupt, LegacyStatus(TRUE), LegacyStatus(FALSE)}]
  /\ lReq = NoRequest
  /\ lResp = NoResponse
  /\ lBefore = [dois |-> lDOIS, status |-> lSTATUS]
  /\ lOps = NoOps
  /\ lCount = 0

\* POST /add-doi
AddDOI ==
  /\ lCount < MaxRequests
  /\ \E body \in AddBodies :
       /\ lReq' = body
       /\ lDOIS' = AddDoiOutcome(body, lDOIS, lSTATUS).dois
       /\ lSTATUS' = AddDoiOutcome(body, lDOIS, lSTATUS).status
       /\ lResp' = AddDoiOutcome(body, lDOIS, lSTATUS).resp
       /\ lOps' = AddDoiOutcome(body, lDOIS, lSTATUS).ops
  /\ lBefore' = [dois |-> lDOIS, status |-> lSTATUS]
  /\ lCount' = lCount + 1
  /\ UNCHANGED listAux

\* POST /remove-doi
RemoveDOI ==
  /\ lCount < MaxRequests
  /\ \E body \in RemoveBodies :
       /\ lReq' = body
       /\ lDOIS' = RemoveDoiOutcome(body, lDOIS, lSTATUS).dois
       /\ lSTATUS' = RemoveDoiOutcome(body, lDOIS, lSTATUS).status
       /\ lResp' = RemoveDoiOutcome(body, lDOIS, lSTATUS).resp
       /\ lOps' = RemoveDoiOutcome(body, lDOIS, lSTATUS).ops
  /\ lBefore' = [dois |-> lDOIS, status |-> lSTATUS]
  /\ lCount' = lCount + 1
  /\ UNCHANGED listAux

\* GET /status
GetStatus ==
  /\ lCount < MaxRequests
  /\ lReq' = StatusRequest
  /\ lResp' = GetStatusResponse(lDOIS, lSTATUS)
  /\ lOps' = NoOps
  /\ lBefore' = [dois |-> lDOIS, status |-> lSTATUS]
  /\ lCount' = lCount + 1
  /\ UNCHANGED <<lDOIS, lSTATUS, listAux>>

NextList ==
  \/ AddDOI
  \/ RemoveDOI
  \/ GetStatus

SpecList == InitList /\ [][NextList]_vars

\* ----------------------------------------------------- claims on the requests
\* the list holds no identifier twice
DuplicateFree(list) ==
  \A i, j \in 1..Len(list) : list[i] = list[j] => i = j

\* every valid identifier that the request names is in the list before it
AllPresentBefore ==
  \A raw \in Range(DoisToAdd(lReq)) :
    ValidateDOI(raw).valid =>
      ValidateDOI(raw).normalized \in Range(ListOf(lBefore.dois))

\* C28: after any sequence of addDOI and removeDOI requests from an empty
\* list, the stored list is duplicate-free and holds only normalized
\* identifiers that passed validation; adding identifiers whose normalized
\* forms are already present leaves the list unchanged.
C28_ListDuplicateFreeAndNormalized ==
  /\ DuplicateFree(ListOf(lDOIS))
  /\ \A d \in Range(ListOf(lDOIS)) : ValidDOI(d) /\ NormalizeDOI(d) = d
  /\ (lReq.op = "add" /\ lResp.status = 200 /\ AllPresentBefore) =>
       (lDOIS = lBefore.dois /\ lOps = NoOps)

C28_Witness ==
  /\ lReq.op = "add"
  /\ lReq.dois = <<"doi:doiA", "doiA">>
  /\ lBefore.dois.kind = "json"
  /\ lBefore.dois.list = <<"doiLong">>
  /\ lDOIS.list = <<"doiLong", "doiA">>

\* C29: a removeDOI request that fails (identifier not in the list, list
\* absent, missing doi field, invalid JSON) performs no write to the
\* monitoring list and no delete in the status store.
C29_FailedRemoveChangesNothing ==
  (lReq.op = "remove" /\ lResp.status # 200) =>
    /\ lDOIS = lBefore.dois
    /\ lSTATUS = lBefore.status
    /\ lOps = NoOps

C29_Witness ==
  /\ lReq.op = "remove"
  /\ lReq.doi = "doiA"
  /\ lResp.status = 404
  /\ lDOIS.kind = "json"
  /\ lDOIS.list = <<"doiLong">>
  /\ lSTATUS["doiA"] = LegacyStatus(TRUE)

\* the entries of the stored list that have no parseable record
Unchecked ==
  {k \in 1..Len(ListOf(lDOIS)) : lSTATUS[lDOIS.list[k]].kind # "json"}

\* C30: for every stored monitoring list and status store, the counters of
\* the /status response partition the identifiers: working + broken +
\* unchecked = count, an identifier with no record or with an unparseable
\* record being counted as unchecked.
C30_StatusCountsPartition ==
  (lReq.op = "status" /\ lDOIS.kind = "json") =>
    /\ lResp.counted
    /\ lResp.count = Len(lDOIS.list)
    /\ lResp.working + lResp.broken + lResp.unchecked = lResp.count
    /\ lResp.unchecked = Cardinality(Unchecked)

C30_Witness ==
  /\ lReq.op = "status"
  /\ lResp.count = 2
  /\ lResp.working = 1
  /\ lResp.unchecked = 1
  /\ lResp.broken = 0
  /\ \E d \in Range(lDOIS.list) : lSTATUS[d] = Corrupt
\* ============================================ further claims on the prober
\* C34: the prober pauses for retryDelay before every attempt except the
\* first and never after the last: a probe that has made k attempts has
\* paused k - 1 times, each time for the same delay, so a probe that
\* succeeds on its first attempt never pauses.
C34_PauseBeforeEveryRetryOnly ==
  /\ sleeps = (IF attempts = 0 THEN 0 ELSE attempts - 1)
  /\ slept = sleeps * RetryDelay

\* a probe has returned a working result on its third attempt after two
\* pauses of one second
C34_Witness ==
  /\ Returned
  /\ LastResult.working
  /\ attempts = 3
  /\ sleeps = 2
  /\ slept = 2000

\* C35: a final response with an error status (>= 400) ends the probe at that
\* attempt: the result has working=false and httpStatus set to that status
\* and no further attempt is made; a retry is consumed only when one of the
\* two requests of an attempt throws.
C35_ErrorStatusEndsProbe ==
  /\ [](Returned /\ LastResult.httpStatus >= 400 =>
          /\ ~LastResult.working
          /\ LastResult.httpStatus = finalStatus
          /\ attempts = retries + 1)
  /\ [][ppc = "second" =>
          \/ /\ retries' = retries + 1
             /\ lastError' \in Messages
             /\ finalStatus' = finalStatus
             /\ bResults' = bResults
             /\ ppc' = "attempt"
          \/ /\ retries' = retries
             /\ attempts' = attempts
             /\ ppc' = "batch"
             /\ Len(bResults') = Len(bResults) + 1
             /\ bResults'[Len(bResults')].httpStatus = finalStatus'
             /\ finalStatus' >= 400 => ~bResults'[Len(bResults')].working]_vars

\* the first attempt threw and the second one was answered with status 500:
\* the probe returned with two retries left
C35_Witness ==
  /\ Returned
  /\ LastResult.httpStatus = 500
  /\ ~LastResult.working
  /\ attempts = 2
  /\ retries = 1

\* ================================================ alerts and failed writes
\* the k-th result of the finished cycle was written to STATUS and changed its
\* identifier from working to not working
PersistedTransition(k) ==
  /\ k < (IF putThrew THEN idx ELSE Len(results) + 1)
  /\ PrevWorking(previousStatuses[results[k].doi])
  /\ ~results[k].working

\* C36: every working-to-broken transition that a cycle persists gets an
\* alert attempt in that same cycle: when the cycle has ended, the dispatcher
\* was invoked with every identifier whose written record changed from
\* working to not working, also when a later status write failed.
C36_PersistedTransitionAlerted ==
  (pc = "done" /\ puts > 0) =>
    \A k \in 1..Len(results) :
      PersistedTransition(k) =>
        /\ alert \notin {"none", "skipped"}
        /\ results[k].doi \in Range(newlyBroken)

\* ============================================ adding and removing again
\* the request handled last was an addDOI of one input string, which it
\* reported as added
AddedOne ==
  /\ lReq.op = "add"
  /\ lReq.kind = "json"
  /\ lReq.doi # ""
  /\ lResp.status = 200
  /\ lOps.puts = 1

\* C38: addDOI and removeDOI round-trip on the same input string: when
\* addDOI has reported an input as added, a removeDOI with the same input
\* string that follows it succeeds and restores the monitoring list to what
\* it was before the add.
C38_AddThenRemoveRestores ==
  [][(AddedOne /\ lReq'.op = "remove" /\ lReq'.doi = lReq.doi) =>
       /\ lResp'.status = 200
       /\ ListOf(lDOIS') = ListOf(lBefore.dois)]_vars

\* ========================================================= the rate limiter
\* new SimpleRateLimiter(maxRequests, windowMs), its clients and its clock.
\* maxRequests
LimitMax == 2
\* windowMs
LimitWindow == 2
\* the clock stops here
MaxClock == 4
\* the number of calls of the limiter
MaxCalls == 5

\* timestamps.filter((t) => t > windowStart)
Kept(timestamps, windowStart) ==
  SelectSeq(timestamps, LAMBDA t : t > windowStart)

\* the map after the clean-up loop of checkLimit (an entry left empty is
\* deleted, and a missing entry reads as [])
Cleaned(requests, t) ==
  [id \in Clients |-> Kept(requests[id], t - LimitWindow)]

OverLimitLoose(n) == n > LimitMax

\* clientRequests.length >= this.maxRequests
OverLimit(n) == n >= LimitMax

\* getRemainingRequests(clientId)
GetRemainingRequests(requests, c) ==
  IF LimitMax - Len(requests[c]) > 0 THEN LimitMax - Len(requests[c]) ELSE 0

limiterAux ==
  <<cycleVars, probeVars, mergeVars, overlapVars, listVars, loggerVars, addVars>>

InitLimiter ==
  /\ CycleParked
  /\ ProbeParked
  /\ MergeParked
  /\ OverlapParked
  /\ ListParked
  /\ LoggerParked
  /\ AddParked
  /\ rlRequests = [c \in Clients |-> << >>]
  /\ rlNow = 0
  /\ rlLast = NoCall
  /\ rlAccepted = [c \in Clients |-> << >>]
  /\ rlRejects = [c \in Clients |-> 0]
  /\ rlCalls = 0

\* time passes
ClockTick ==
  /\ rlNow < MaxClock
  /\ rlNow' = rlNow + 1
  /\ UNCHANGED <<rlRequests, rlLast, rlAccepted, rlRejects, rlCalls, limiterAux>>

CheckLimitRecordsRejected(c) ==
  /\ rlCalls < MaxCalls
  /\ rlRequests' = [Cleaned(rlRequests, rlNow) EXCEPT ![c] = Append(@, rlNow)]
  /\ IF OverLimit(Len(Cleaned(rlRequests, rlNow)[c]))
       THEN /\ rlRejects' = [rlRejects EXCEPT ![c] = @ + 1]
            /\ rlLast' = [op |-> "checkLimit", client |-> c, at |-> rlNow,
                          ok |-> FALSE, remaining |-> 0]
            /\ UNCHANGED rlAccepted
       ELSE /\ rlAccepted' = [rlAccepted EXCEPT ![c] = Append(@, rlNow)]
            /\ rlLast' = [op |-> "checkLimit", client |-> c, at |-> rlNow,
                          ok |-> TRUE, remaining |-> 0]
            /\ UNCHANGED rlRejects
  /\ rlCalls' = rlCalls + 1
  /\ UNCHANGED <<rlNow, limiterAux>>

\* checkLimit(clientId): the clean-up of every entry, then the test and the
\* push of now
CheckLimit(c) ==
  /\ rlCalls < MaxCalls
  /\ IF OverLimit(Len(Cleaned(rlRequests, rlNow)[c]))
       THEN /\ rlRequests' = Cleaned(rlRequests, rlNow)
            /\ rlRejects' = [rlRejects EXCEPT ![c] = @ + 1]
            /\ rlLast' = [op |-> "checkLimit", client |-> c, at |-> rlNow,
                          ok |-> FALSE, remaining |-> 0]
            /\ UNCHANGED rlAccepted
       ELSE /\ rlRequests' =
                 [Cleaned(rlRequests, rlNow) EXCEPT ![c] = Append(@, rlNow)]
            /\ rlAccepted' = [rlAccepted EXCEPT ![c] = Append(@, rlNow)]
            /\ rlLast' = [op |-> "checkLimit", client |-> c, at |-> rlNow,
                          ok |-> TRUE, remaining |-> 0]
            /\ UNCHANGED rlRejects
  /\ rlCalls' = rlCalls + 1
  /\ UNCHANGED <<rlNow, limiterAux>>

\* a call of getRemainingRequests(clientId)
RemainingRequests(c) ==
  /\ rlCalls < MaxCalls
  /\ rlLast' = [op |-> "getRemainingRequests", client |-> c, at |-> rlNow,
                ok |-> TRUE, remaining |-> GetRemainingRequests(rlRequests, c)]
  /\ rlCalls' = rlCalls + 1
  /\ UNCHANGED <<rlRequests, rlNow, rlAccepted, rlRejects, limiterAux>>

NextLimiter ==
  \/ ClockTick
  \/ \E c \in Clients : CheckLimit(c)
  \/ \E c \in Clients : RemainingRequests(c)

SpecLimiter == InitLimiter /\ [][NextLimiter]_vars

\* ------------------------------------------------ claims on the rate limiter
\* the number of calls of client c that returned true with a timestamp in
\* (t - windowMs, t]
AcceptedIn(c, t) ==
  Cardinality({k \in 1..Len(rlAccepted[c]) :
                 rlAccepted[c][k] > t - LimitWindow /\ rlAccepted[c][k] <= t})

\* C31: the limiter accepts at most maxRequests calls per client per window:
\* for every client and every time t, the calls of that client that returned
\* true with a timestamp in (t - windowMs, t] number at most maxRequests,
\* whatever the other clients do.
C31_AtMostMaxPerWindow ==
  \A c \in Clients : \A t \in 0..rlNow : AcceptedIn(c, t) <= LimitMax

\* a client with maxRequests accepted calls in the window has just been
\* rejected, while the other client has been accepted in between
C31_Witness ==
  /\ rlLast.op = "checkLimit"
  /\ ~rlLast.ok
  /\ AcceptedIn(rlLast.client, rlNow) = LimitMax
  /\ \E o \in Clients \ {rlLast.client} : AcceptedIn(o, rlNow) > 0

\* C32: getRemainingRequests(client) returns, at any time, maxRequests minus
\* the number of that client's accepted calls within the last windowMs (and
\* not less than 0), also when time has passed with no checkLimit call.
C32_RemainingCountsWindow ==
  (rlLast.op = "getRemainingRequests" /\ rlLast.at = rlNow) =>
    rlLast.remaining =
      (IF LimitMax - AcceptedIn(rlLast.client, rlNow) > 0
         THEN LimitMax - AcceptedIn(rlLast.client, rlNow) ELSE 0)

\* C39: rejected calls do not count against the limit: a checkLimit that
\* returns false records nothing, and a call is accepted exactly when fewer
\* than maxRequests accepted calls of its client lie within the last windowMs,
\* so a blocked client is accepted again as soon as that is the case.
C39_RejectedNotCounted ==
  /\ [](rlLast.op = "checkLimit" =>
          (rlLast.ok <=>
             AcceptedIn(rlLast.client, rlLast.at)
               - (IF rlLast.ok THEN 1 ELSE 0) < LimitMax))
  /\ [](\A c \in Clients : \A k \in 1..Len(rlRequests[c]) :
          \E j \in 1..Len(rlAccepted[c]) : rlAccepted[c][j] = rlRequests[c][k])
  /\ [][\A c \in Clients :
          rlRejects'[c] > rlRejects[c] =>
            /\ rlAccepted' = rlAccepted
            /\ rlRequests'[c] = Kept(rlRequests[c], rlNow - LimitWindow)]_vars

\* a client was rejected and, once its accepted calls had left the window,
\* accepted again
C39_Witness ==
  /\ rlLast.op = "checkLimit"
  /\ rlLast.ok
  /\ rlRejects[rlLast.client] > 0
  /\ Len(rlAccepted[rlLast.client]) = LimitMax + 1
  /\ AcceptedIn(rlLast.client, rlNow) = 1

\* =============================================================== the logger
\* configure, the four log functions and the loggers of createScopedLogger.
MaxLogs == 3

\* a field that the argument of configure does not give
NotGiven == -1

\* the arguments of configure: minLevel a level, a number above every level,
\* or not given; the two switches of the format given or not
ConfigInputs ==
  [minLevel : {NotGiven} \cup 0..4,
   timestamps : {"unset", "true", "false"},
   includeContext : {"unset", "true", "false"}]

\* { ...defaultConfig, ...config }
Configure(config) ==
  [minLevel |-> IF config.minLevel = NotGiven
                  THEN DefaultConfig.minLevel ELSE config.minLevel,
   colorize |-> DefaultConfig.colorize,
   timestamps |-> IF config.timestamps = "unset"
                    THEN DefaultConfig.timestamps ELSE config.timestamps = "true",
   includeContext |-> IF config.includeContext = "unset"
                        THEN DefaultConfig.includeContext
                        ELSE config.includeContext = "true"]

\* the levels of debug, info, warn and error
Levels == {LOG_LEVELS.DEBUG, LOG_LEVELS.INFO, LOG_LEVELS.WARN, LOG_LEVELS.ERROR}

ShouldLogAbove(minLevel, level) == minLevel < level

\* if (loggerConfig.minLevel <= LOG_LEVELS.X)
ShouldLog(minLevel, level) == minLevel <= level

\* formatLogMessage(level, message, context): the parts of the line
FormatLogMessage(config, level, hasContext) ==
  [timestamp |-> config.timestamps, level |-> level,
   context |-> (config.includeContext /\ hasContext)]

loggerAux ==
  <<cycleVars, probeVars, mergeVars, overlapVars, listVars, limiterVars, addVars>>

InitLogger ==
  /\ CycleParked
  /\ ProbeParked
  /\ MergeParked
  /\ OverlapParked
  /\ ListParked
  /\ LimiterParked
  /\ AddParked
  /\ loggerConfig = DefaultConfig
  /\ logScopes = [s \in Scopes |-> NotCreated]
  /\ logLast = NoLog
  /\ logCalls = 0
  /\ consoleLines = 0

\* configure(config)
ConfigureLogger ==
  /\ \E config \in ConfigInputs : loggerConfig' = Configure(config)
  /\ UNCHANGED <<logScopes, logLast, logCalls, consoleLines, loggerAux>>

\* createScopedLogger(scope)
CreateScopedLogger(s) ==
  /\ logScopes' = [logScopes EXCEPT ![s] = loggerConfig.minLevel]
  /\ UNCHANGED <<loggerConfig, logLast, logCalls, consoleLines, loggerAux>>

\* debug / info / warn / error (message, context)
Log(level, hasContext) ==
  /\ logCalls < MaxLogs
  /\ logLast' =
       [level |-> level, scope |-> "module",
        wrote |-> ShouldLog(loggerConfig.minLevel, level),
        line |-> IF ShouldLog(loggerConfig.minLevel, level)
                   THEN FormatLogMessage(loggerConfig, level, hasContext)
                   ELSE NoLine]
  /\ consoleLines' = IF ShouldLog(loggerConfig.minLevel, level)
                       THEN consoleLines + 1 ELSE consoleLines
  /\ logCalls' = logCalls + 1
  /\ UNCHANGED <<loggerConfig, logScopes, loggerAux>>

\* a function of a scoped logger: the module-level function of that level
\* with the scope merged into the context
ScopedLog(s, level) ==
  /\ logCalls < MaxLogs
  /\ logScopes[s] # NotCreated
  /\ logLast' =
       [level |-> level, scope |-> s,
        wrote |-> ShouldLog(loggerConfig.minLevel, level),
        line |-> IF ShouldLog(loggerConfig.minLevel, level)
                   THEN FormatLogMessage(loggerConfig, level, TRUE)
                   ELSE NoLine]
  /\ consoleLines' = IF ShouldLog(loggerConfig.minLevel, level)
                       THEN consoleLines + 1 ELSE consoleLines
  /\ logCalls' = logCalls + 1
  /\ UNCHANGED <<loggerConfig, logScopes, loggerAux>>

NextLogger ==
  \/ ConfigureLogger
  \/ \E s \in Scopes : CreateScopedLogger(s)
  \/ \E level \in Levels, hasContext \in BOOLEAN : Log(level, hasContext)
  \/ \E s \in Scopes, level \in Levels : ScopedLog(s, level)

SpecLogger == InitLogger /\ [][NextLogger]_vars

\* ----------------------------------------------------- claims on the logger
\* C33: a log call at level L writes one line to the console exactly when L
\* is at least the minLevel in force when the call is made; this holds for
\* the loggers of createScopedLogger too, which follow later configure calls.
C33_WritesIffAtLeastMinLevel ==
  [][logCalls' # logCalls =>
       IF logLast'.level >= loggerConfig.minLevel
         THEN /\ logLast'.wrote
              /\ logLast'.line.level = logLast'.level
              /\ consoleLines' = consoleLines + 1
         ELSE /\ ~logLast'.wrote
              /\ consoleLines' = consoleLines]_vars

\* a scoped logger created while minLevel was DEBUG was silent at level INFO
\* after configure had raised minLevel to ERROR, and had written before
C33_Witness ==
  /\ logLast.scope = "checker"
  /\ logLast.level = LOG_LEVELS.INFO
  /\ ~logLast.wrote
  /\ logScopes["checker"] = LOG_LEVELS.DEBUG
  /\ loggerConfig.minLevel = LOG_LEVELS.ERROR
  /\ consoleLines > 0

\* ================================================ two addDOI requests at once
\* Two POST /add-doi requests whose awaits (request.json, DOIS.get, DOIS.put)
\* interleave.
\* the bodies that name one identifier through the doi field, and the body
\* that is not JSON
SingleBodies == {b \in AddBodies : ~b.hasDois}

addAux ==
  <<cycleVars, probeVars, mergeVars, overlapVars, listVars, limiterVars,
    loggerVars>>

InitAdd ==
  /\ CycleParked
  /\ ProbeParked
  /\ MergeParked
  /\ OverlapParked
  /\ ListParked
  /\ LimiterParked
  /\ LoggerParked
  /\ aDOIS \in {Absent, [kind |-> "json", list |-> << >>],
                [kind |-> "json", list |-> <<"doiLong">>]}
  /\ adders \in [Adders -> {[NoAdder EXCEPT !.pc = "parse", !.body = b] :
                               b \in SingleBodies}]

\* request.json() and the choice of doisToAdd: a ValidationError goes to the
\* catch, which answers 400
AddParse(r) ==
  /\ adders[r].pc = "parse"
  /\ adders' =
       [adders EXCEPT ![r] =
          IF @.body.kind = "invalid-json" \/ (@.body.doi = "" /\ ~@.body.hasDois)
            THEN [@ EXCEPT !.pc = "done", !.status = 400]
            ELSE [@ EXCEPT !.pc = "get"]]
  /\ UNCHANGED <<aDOIS, addAux>>

\* env.DOIS.get(DOI_LIST_KEY)
AddGet(r) ==
  /\ adders[r].pc = "get"
  /\ adders' = [adders EXCEPT ![r] = [@ EXCEPT !.pc = "put", !.read = aDOIS]]
  /\ UNCHANGED <<aDOIS, addAux>>

\* the loop over doisToAdd on the list that was read, env.DOIS.put of that
\* list when something was added, and the 200 response
AddPut(r) ==
  /\ adders[r].pc = "put"
  /\ LET o == AddDoiOutcome(adders[r].body, adders[r].read,
                            [d \in DOIs |-> Absent])
     IN  /\ aDOIS' = IF o.ops.puts = 1 THEN o.dois ELSE aDOIS
         /\ adders' = [adders EXCEPT ![r] =
                         [@ EXCEPT !.pc = "done", !.status = o.resp.status,
                                   !.added = (o.ops.puts = 1)]]
  /\ UNCHANGED addAux

NextAdd ==
  \/ \E r \in Adders : AddParse(r)
  \/ \E r \in Adders : AddGet(r)
  \/ \E r \in Adders : AddPut(r)

SpecAdd == InitAdd /\ [][NextAdd]_vars

\* C37: two concurrent addDOI requests that add different valid identifiers
\* both take effect: once both have reported their identifier as added, the
\* stored list holds both identifiers.
C37_ConcurrentAddsBothKept ==
  (/\ \A r \in Adders : adders[r].pc = "done" /\ adders[r].added
   /\ NormalizeDOI(adders[1].body.doi) # NormalizeDOI(adders[2].body.doi)) =>
    \A r \in Adders : NormalizeDOI(adders[r].body.doi) \in Range(ListOf(aDOIS))

\* ================================================ one cycle, request by request
\* One checkAllDOIs in which checkMultipleDOIs runs request by request: the
\* cycle hands its list to the batch runner, whose retry loops run as in
\* SpecProbe, and takes the results back.  Every request and every store
\* operation that is pending eventually returns or fails.

\* the first cycle starts
LiveStart(t) ==
  /\ cycles = 0
  /\ StartCycle(t)

\* checkAllDOIs calls checkMultipleDOIs(doiList)
CheckBegin ==
  /\ pc = "check"
  /\ ppc = "parked"
  /\ bInput' = [kind |-> "array", list |-> doiList]
  /\ bIdx' = 1
  /\ bResults' = << >>
  /\ probed' = << >>
  /\ ppc' = "batch"
  /\ UNCHANGED <<probeLocals, cycleVars, mergeVars, overlapVars, listVars,
                 utilVars>>

\* checkMultipleDOIs returns its results to checkAllDOIs, and its locals
\* are gone
CheckEnd ==
  /\ pc = "check"
  /\ ppc = "done"
  /\ results' = bResults
  /\ now' = now + Len(bResults)
  /\ idx' = 1
  /\ pc' = "process"
  /\ ppc' = "returned"
  /\ bInput' = [kind |-> "null", list |-> << >>]
  /\ bIdx' = 1
  /\ bResults' = << >>
  /\ probed' = << >>
  /\ retries' = 0
  /\ lastError' = NoLastError
  /\ firstStatus' = NoHttpStatus
  /\ finalStatus' = NoHttpStatus
  /\ attempts' = 0
  /\ sleeps' = 0
  /\ slept' = 0
  /\ UNCHANGED <<store, cycles, trigger, doiList, previousStatuses,
                 newlyBroken, existingStatus, dispatch, outcome, summary,
                 history, writes, mergeVars, overlapVars, listVars, utilVars>>

\* the steps of a running cycle
LiveStep ==
  \/ ReadPrevious
  \/ CheckBegin
  \/ BatchNext
  \/ Attempt
  \/ Second
  \/ RetriesExhausted
  \/ CheckEnd
  \/ Process
  \/ UpdateGet
  \/ UpdatePut
  \/ Post
  \/ Respond

NextLive ==
  \/ \E t \in {"scheduled", "check-now"} : LiveStart(t)
  \/ LiveStep

SpecLive == Init /\ [][NextLive]_vars /\ WF_vars(LiveStep)

\* C40: every cycle terminates: a cycle that has started eventually returns
\* its summary or ends in a fatal error, after at most maxRetries + 1
\* attempts per probe and at most one alert dispatch.
C40_CycleTerminates ==
  /\ (cycles > 0) ~>
       (pc = "done" /\ outcome \in {"resolved", "summary", "no-dois",
                                    "rethrown", "error-response"})
  /\ [](attempts <= MaxRetries + 1)
  /\ [](Len(posts) <= 1)

\* a cycle over two identifiers has returned its summary after the second
\* probe used all its attempts and one alert was posted
C40_Witness ==
  /\ pc = "done"
  /\ outcome = "summary"
  /\ Len(doiList) = 2
  /\ results[1].working
  /\ results[2].error = "timeout"
  /\ Len(posts) = 1

====
